---- MODULE Spec2Model ----
(***************************************************************************)
(* A model of the sentiment-analysis service of src/senti.py: the text     *)
(* cleaner clean_text, the two request handlers analyze_sentiment and      *)
(* analyze_sentiment_batch, and the per-client rate limits declared on     *)
(* them.                                                                   *)
(*                                                                         *)
(* A text is a Python str: a sequence of Unicode code points.  A JSON      *)
(* value is a record [type, s, n, items]: type is "str" (s holds the       *)
(* code points), "int" (n holds the number), "bool" (n is 1 or 0), "null", *)
(* "list" (items holds the elements) or "object" (items holds the members, *)
(* in order, the keys distinct).  JSON numbers with a fraction are not     *)
(* among the values, nor integers beyond 32 bits.  A score is a binary64   *)
(* floating-point number, a record [neg, man, exp] standing for            *)
(* (-1)^neg * man * 2^exp, man written in binary digits, lowest first.     *)
(***************************************************************************)
EXTENDS Integers, Sequences, FiniteSets, TLC

VARIABLES
    pc,         \* where the service is: "idle", "single", "batch", "loop", "done"
    req,        \* the request being served: client, endpoint, is_json, data
    resp,       \* the response to it
    texts,      \* analyze_sentiment_batch: the local `texts`
    results,    \* analyze_sentiment_batch: the local `results`
    idx,        \* analyze_sentiment_batch: number of items the for loop has consumed
    hits,       \* limiter storage: requests counted in the current window, per client and endpoint
    clock,      \* limiter storage: ticks gone by since the current window of a counter began
    handled,    \* history: requests of the current window handed to the handler
    allFailed,  \* history: every answered request of the current window ended in 400 or 500
    scored,     \* history: the scorer invocations made for the current request
    cleaner,    \* harness of clean_text: input, stage, first and second output
    classifier  \* harness of the classification rule: the two scores and the labels

vars == <<pc, req, resp, texts, results, idx, hits, clock, handled, allFailed, scored,
          cleaner, classifier>>

-----------------------------------------------------------------------------
(* Characters.  A character is its code point.  The patterns of clean_text *)
(* are str patterns compiled without re.ASCII, so \w and \s are the        *)
(* Unicode classes (Unicode 14.0.0, the database of Python 3.11).          *)

\* The printable ASCII characters, in the order of their code points 32..126,
\* but for the grave accent, 96, which no string of this notation can hold.
AsciiPrintable ==
    <<" ","!","\"","#","$","%","&","'","(",")","*","+",",","-",".","/",
      "0","1","2","3","4","5","6","7","8","9",":",";","<","=",">","?",
      "@","A","B","C","D","E","F","G","H","I","J","K","L","M","N","O",
      "P","Q","R","S","T","U","V","W","X","Y","Z","[","\\","]","^","_",
      "a","b","c","d","e","f","g","h","i","j","k","l","m","n","o",
      "p","q","r","s","t","u","v","w","x","y","z","{","|","}","~">>

\* ord(c) of an ASCII character c.
Ord(c) ==
    CASE c = "\t" -> 9
      [] c = "\n" -> 10
      [] c = "\f" -> 12
      [] c = "\r" -> 13
      [] OTHER -> LET n == CHOOSE k \in 1..Len(AsciiPrintable) : AsciiPrintable[k] = c
                  IN  IF n <= 64 THEN 31 + n ELSE 32 + n

\* The str whose characters are the ASCII characters of chars, written out
\* as a tuple.
Text(chars) == <<>> \o [j \in 1..Len(chars) |-> Ord(chars[j])]

\* What \s matches, str.split() splits on and str.strip() strips: \t \n
\* \x0b \x0c \r, \x1c-\x1f, the space, \x85, \xa0 and the Unicode spaces.
SpaceChars ==
    {9, 10, 11, 12, 13, 28, 29, 30, 31, 32, 133, 160, 5760}
    \cup (8192..8202) \cup {8232, 8233, 8239, 8287, 12288}

IsSpace(c) == c \in SpaceChars

\* What \w matches below 128: 0-9, A-Z, the underscore, a-z.
AsciiWord == (48..57) \cup (65..90) \cup {95} \cup (97..122)

\* What \w matches from 128 on: the code points c with chr(c).isalnum(),
\* as ranges <<first, last>>.
WordRanges ==
    << <<170, 170>>, <<178, 179>>, <<181, 181>>, <<185, 186>>, <<188, 190>>,
      <<192, 214>>, <<216, 246>>, <<248, 705>>, <<710, 721>>, <<736, 740>>,
      <<748, 748>>, <<750, 750>>, <<880, 884>>, <<886, 887>>, <<890, 893>>,
      <<895, 895>>, <<902, 902>>, <<904, 906>>, <<908, 908>>, <<910, 929>>,
      <<931, 1013>>, <<1015, 1153>>, <<1162, 1327>>, <<1329, 1366>>,
      <<1369, 1369>>, <<1376, 1416>>, <<1488, 1514>>, <<1519, 1522>>,
      <<1568, 1610>>, <<1632, 1641>>, <<1646, 1647>>, <<1649, 1747>>,
      <<1749, 1749>>, <<1765, 1766>>, <<1774, 1788>>, <<1791, 1791>>,
      <<1808, 1808>>, <<1810, 1839>>, <<1869, 1957>>, <<1969, 1969>>,
      <<1984, 2026>>, <<2036, 2037>>, <<2042, 2042>>, <<2048, 2069>>,
      <<2074, 2074>>, <<2084, 2084>>, <<2088, 2088>>, <<2112, 2136>>,
      <<2144, 2154>>, <<2160, 2183>>, <<2185, 2190>>, <<2208, 2249>>,
      <<2308, 2361>>, <<2365, 2365>>, <<2384, 2384>>, <<2392, 2401>>,
      <<2406, 2415>>, <<2417, 2432>>, <<2437, 2444>>, <<2447, 2448>>,
      <<2451, 2472>>, <<2474, 2480>>, <<2482, 2482>>, <<2486, 2489>>,
      <<2493, 2493>>, <<2510, 2510>>, <<2524, 2525>>, <<2527, 2529>>,
      <<2534, 2545>>, <<2548, 2553>>, <<2556, 2556>>, <<2565, 2570>>,
      <<2575, 2576>>, <<2579, 2600>>, <<2602, 2608>>, <<2610, 2611>>,
      <<2613, 2614>>, <<2616, 2617>>, <<2649, 2652>>, <<2654, 2654>>,
      <<2662, 2671>>, <<2674, 2676>>, <<2693, 2701>>, <<2703, 2705>>,
      <<2707, 2728>>, <<2730, 2736>>, <<2738, 2739>>, <<2741, 2745>>,
      <<2749, 2749>>, <<2768, 2768>>, <<2784, 2785>>, <<2790, 2799>>,
      <<2809, 2809>>, <<2821, 2828>>, <<2831, 2832>>, <<2835, 2856>>,
      <<2858, 2864>>, <<2866, 2867>>, <<2869, 2873>>, <<2877, 2877>>,
      <<2908, 2909>>, <<2911, 2913>>, <<2918, 2927>>, <<2929, 2935>>,
      <<2947, 2947>>, <<2949, 2954>>, <<2958, 2960>>, <<2962, 2965>>,
      <<2969, 2970>>, <<2972, 2972>>, <<2974, 2975>>, <<2979, 2980>>,
      <<2984, 2986>>, <<2990, 3001>>, <<3024, 3024>>, <<3046, 3058>>,
      <<3077, 3084>>, <<3086, 3088>>, <<3090, 3112>>, <<3114, 3129>>,
      <<3133, 3133>>, <<3160, 3162>>, <<3165, 3165>>, <<3168, 3169>>,
      <<3174, 3183>>, <<3192, 3198>>, <<3200, 3200>>, <<3205, 3212>>,
      <<3214, 3216>>, <<3218, 3240>>, <<3242, 3251>>, <<3253, 3257>>,
      <<3261, 3261>>, <<3293, 3294>>, <<3296, 3297>>, <<3302, 3311>>,
      <<3313, 3314>>, <<3332, 3340>>, <<3342, 3344>>, <<3346, 3386>>,
      <<3389, 3389>>, <<3406, 3406>>, <<3412, 3414>>, <<3416, 3425>>,
      <<3430, 3448>>, <<3450, 3455>>, <<3461, 3478>>, <<3482, 3505>>,
      <<3507, 3515>>, <<3517, 3517>>, <<3520, 3526>>, <<3558, 3567>>,
      <<3585, 3632>>, <<3634, 3635>>, <<3648, 3654>>, <<3664, 3673>>,
      <<3713, 3714>>, <<3716, 3716>>, <<3718, 3722>>, <<3724, 3747>>,
      <<3749, 3749>>, <<3751, 3760>>, <<3762, 3763>>, <<3773, 3773>>,
      <<3776, 3780>>, <<3782, 3782>>, <<3792, 3801>>, <<3804, 3807>>,
      <<3840, 3840>>, <<3872, 3891>>, <<3904, 3911>>, <<3913, 3948>>,
      <<3976, 3980>>, <<4096, 4138>>, <<4159, 4169>>, <<4176, 4181>>,
      <<4186, 4189>>, <<4193, 4193>>, <<4197, 4198>>, <<4206, 4208>>,
      <<4213, 4225>>, <<4238, 4238>>, <<4240, 4249>>, <<4256, 4293>>,
      <<4295, 4295>>, <<4301, 4301>>, <<4304, 4346>>, <<4348, 4680>>,
      <<4682, 4685>>, <<4688, 4694>>, <<4696, 4696>>, <<4698, 4701>>,
      <<4704, 4744>>, <<4746, 4749>>, <<4752, 4784>>, <<4786, 4789>>,
      <<4792, 4798>>, <<4800, 4800>>, <<4802, 4805>>, <<4808, 4822>>,
      <<4824, 4880>>, <<4882, 4885>>, <<4888, 4954>>, <<4969, 4988>>,
      <<4992, 5007>>, <<5024, 5109>>, <<5112, 5117>>, <<5121, 5740>>,
      <<5743, 5759>>, <<5761, 5786>>, <<5792, 5866>>, <<5870, 5880>>,
      <<5888, 5905>>, <<5919, 5937>>, <<5952, 5969>>, <<5984, 5996>>,
      <<5998, 6000>>, <<6016, 6067>>, <<6103, 6103>>, <<6108, 6108>>,
      <<6112, 6121>>, <<6128, 6137>>, <<6160, 6169>>, <<6176, 6264>>,
      <<6272, 6276>>, <<6279, 6312>>, <<6314, 6314>>, <<6320, 6389>>,
      <<6400, 6430>>, <<6470, 6509>>, <<6512, 6516>>, <<6528, 6571>>,
      <<6576, 6601>>, <<6608, 6618>>, <<6656, 6678>>, <<6688, 6740>>,
      <<6784, 6793>>, <<6800, 6809>>, <<6823, 6823>>, <<6917, 6963>>,
      <<6981, 6988>>, <<6992, 7001>>, <<7043, 7072>>, <<7086, 7141>>,
      <<7168, 7203>>, <<7232, 7241>>, <<7245, 7293>>, <<7296, 7304>>,
      <<7312, 7354>>, <<7357, 7359>>, <<7401, 7404>>, <<7406, 7411>>,
      <<7413, 7414>>, <<7418, 7418>>, <<7424, 7615>>, <<7680, 7957>>,
      <<7960, 7965>>, <<7968, 8005>>, <<8008, 8013>>, <<8016, 8023>>,
      <<8025, 8025>>, <<8027, 8027>>, <<8029, 8029>>, <<8031, 8061>>,
      <<8064, 8116>>, <<8118, 8124>>, <<8126, 8126>>, <<8130, 8132>>,
      <<8134, 8140>>, <<8144, 8147>>, <<8150, 8155>>, <<8160, 8172>>,
      <<8178, 8180>>, <<8182, 8188>>, <<8304, 8305>>, <<8308, 8313>>,
      <<8319, 8329>>, <<8336, 8348>>, <<8450, 8450>>, <<8455, 8455>>,
      <<8458, 8467>>, <<8469, 8469>>, <<8473, 8477>>, <<8484, 8484>>,
      <<8486, 8486>>, <<8488, 8488>>, <<8490, 8493>>, <<8495, 8505>>,
      <<8508, 8511>>, <<8517, 8521>>, <<8526, 8526>>, <<8528, 8585>>,
      <<9312, 9371>>, <<9450, 9471>>, <<10102, 10131>>, <<11264, 11492>>,
      <<11499, 11502>>, <<11506, 11507>>, <<11517, 11517>>, <<11520, 11557>>,
      <<11559, 11559>>, <<11565, 11565>>, <<11568, 11623>>, <<11631, 11631>>,
      <<11648, 11670>>, <<11680, 11686>>, <<11688, 11694>>, <<11696, 11702>>,
      <<11704, 11710>>, <<11712, 11718>>, <<11720, 11726>>, <<11728, 11734>>,
      <<11736, 11742>>, <<11823, 11823>>, <<12293, 12295>>, <<12321, 12329>>,
      <<12337, 12341>>, <<12344, 12348>>, <<12353, 12438>>, <<12445, 12447>>,
      <<12449, 12538>>, <<12540, 12543>>, <<12549, 12591>>, <<12593, 12686>>,
      <<12690, 12693>>, <<12704, 12735>>, <<12784, 12799>>, <<12832, 12841>>,
      <<12872, 12879>>, <<12881, 12895>>, <<12928, 12937>>, <<12977, 12991>>,
      <<13312, 19903>>, <<19968, 42124>>, <<42192, 42237>>, <<42240, 42508>>,
      <<42512, 42539>>, <<42560, 42606>>, <<42623, 42653>>, <<42656, 42735>>,
      <<42775, 42783>>, <<42786, 42888>>, <<42891, 42954>>, <<42960, 42961>>,
      <<42963, 42963>>, <<42965, 42969>>, <<42994, 43009>>, <<43011, 43013>>,
      <<43015, 43018>>, <<43020, 43042>>, <<43056, 43061>>, <<43072, 43123>>,
      <<43138, 43187>>, <<43216, 43225>>, <<43250, 43255>>, <<43259, 43259>>,
      <<43261, 43262>>, <<43264, 43301>>, <<43312, 43334>>, <<43360, 43388>>,
      <<43396, 43442>>, <<43471, 43481>>, <<43488, 43492>>, <<43494, 43518>>,
      <<43520, 43560>>, <<43584, 43586>>, <<43588, 43595>>, <<43600, 43609>>,
      <<43616, 43638>>, <<43642, 43642>>, <<43646, 43695>>, <<43697, 43697>>,
      <<43701, 43702>>, <<43705, 43709>>, <<43712, 43712>>, <<43714, 43714>>,
      <<43739, 43741>>, <<43744, 43754>>, <<43762, 43764>>, <<43777, 43782>>,
      <<43785, 43790>>, <<43793, 43798>>, <<43808, 43814>>, <<43816, 43822>>,
      <<43824, 43866>>, <<43868, 43881>>, <<43888, 44002>>, <<44016, 44025>>,
      <<44032, 55203>>, <<55216, 55238>>, <<55243, 55291>>, <<63744, 64109>>,
      <<64112, 64217>>, <<64256, 64262>>, <<64275, 64279>>, <<64285, 64285>>,
      <<64287, 64296>>, <<64298, 64310>>, <<64312, 64316>>, <<64318, 64318>>,
      <<64320, 64321>>, <<64323, 64324>>, <<64326, 64433>>, <<64467, 64829>>,
      <<64848, 64911>>, <<64914, 64967>>, <<65008, 65019>>, <<65136, 65140>>,
      <<65142, 65276>>, <<65296, 65305>>, <<65313, 65338>>, <<65345, 65370>>,
      <<65382, 65470>>, <<65474, 65479>>, <<65482, 65487>>, <<65490, 65495>>,
      <<65498, 65500>>, <<65536, 65547>>, <<65549, 65574>>, <<65576, 65594>>,
      <<65596, 65597>>, <<65599, 65613>>, <<65616, 65629>>, <<65664, 65786>>,
      <<65799, 65843>>, <<65856, 65912>>, <<65930, 65931>>, <<66176, 66204>>,
      <<66208, 66256>>, <<66273, 66299>>, <<66304, 66339>>, <<66349, 66378>>,
      <<66384, 66421>>, <<66432, 66461>>, <<66464, 66499>>, <<66504, 66511>>,
      <<66513, 66517>>, <<66560, 66717>>, <<66720, 66729>>, <<66736, 66771>>,
      <<66776, 66811>>, <<66816, 66855>>, <<66864, 66915>>, <<66928, 66938>>,
      <<66940, 66954>>, <<66956, 66962>>, <<66964, 66965>>, <<66967, 66977>>,
      <<66979, 66993>>, <<66995, 67001>>, <<67003, 67004>>, <<67072, 67382>>,
      <<67392, 67413>>, <<67424, 67431>>, <<67456, 67461>>, <<67463, 67504>>,
      <<67506, 67514>>, <<67584, 67589>>, <<67592, 67592>>, <<67594, 67637>>,
      <<67639, 67640>>, <<67644, 67644>>, <<67647, 67669>>, <<67672, 67702>>,
      <<67705, 67742>>, <<67751, 67759>>, <<67808, 67826>>, <<67828, 67829>>,
      <<67835, 67867>>, <<67872, 67897>>, <<67968, 68023>>, <<68028, 68047>>,
      <<68050, 68096>>, <<68112, 68115>>, <<68117, 68119>>, <<68121, 68149>>,
      <<68160, 68168>>, <<68192, 68222>>, <<68224, 68255>>, <<68288, 68295>>,
      <<68297, 68324>>, <<68331, 68335>>, <<68352, 68405>>, <<68416, 68437>>,
      <<68440, 68466>>, <<68472, 68497>>, <<68521, 68527>>, <<68608, 68680>>,
      <<68736, 68786>>, <<68800, 68850>>, <<68858, 68899>>, <<68912, 68921>>,
      <<69216, 69246>>, <<69248, 69289>>, <<69296, 69297>>, <<69376, 69415>>,
      <<69424, 69445>>, <<69457, 69460>>, <<69488, 69505>>, <<69552, 69579>>,
      <<69600, 69622>>, <<69635, 69687>>, <<69714, 69743>>, <<69745, 69746>>,
      <<69749, 69749>>, <<69763, 69807>>, <<69840, 69864>>, <<69872, 69881>>,
      <<69891, 69926>>, <<69942, 69951>>, <<69956, 69956>>, <<69959, 69959>>,
      <<69968, 70002>>, <<70006, 70006>>, <<70019, 70066>>, <<70081, 70084>>,
      <<70096, 70106>>, <<70108, 70108>>, <<70113, 70132>>, <<70144, 70161>>,
      <<70163, 70187>>, <<70272, 70278>>, <<70280, 70280>>, <<70282, 70285>>,
      <<70287, 70301>>, <<70303, 70312>>, <<70320, 70366>>, <<70384, 70393>>,
      <<70405, 70412>>, <<70415, 70416>>, <<70419, 70440>>, <<70442, 70448>>,
      <<70450, 70451>>, <<70453, 70457>>, <<70461, 70461>>, <<70480, 70480>>,
      <<70493, 70497>>, <<70656, 70708>>, <<70727, 70730>>, <<70736, 70745>>,
      <<70751, 70753>>, <<70784, 70831>>, <<70852, 70853>>, <<70855, 70855>>,
      <<70864, 70873>>, <<71040, 71086>>, <<71128, 71131>>, <<71168, 71215>>,
      <<71236, 71236>>, <<71248, 71257>>, <<71296, 71338>>, <<71352, 71352>>,
      <<71360, 71369>>, <<71424, 71450>>, <<71472, 71483>>, <<71488, 71494>>,
      <<71680, 71723>>, <<71840, 71922>>, <<71935, 71942>>, <<71945, 71945>>,
      <<71948, 71955>>, <<71957, 71958>>, <<71960, 71983>>, <<71999, 71999>>,
      <<72001, 72001>>, <<72016, 72025>>, <<72096, 72103>>, <<72106, 72144>>,
      <<72161, 72161>>, <<72163, 72163>>, <<72192, 72192>>, <<72203, 72242>>,
      <<72250, 72250>>, <<72272, 72272>>, <<72284, 72329>>, <<72349, 72349>>,
      <<72368, 72440>>, <<72704, 72712>>, <<72714, 72750>>, <<72768, 72768>>,
      <<72784, 72812>>, <<72818, 72847>>, <<72960, 72966>>, <<72968, 72969>>,
      <<72971, 73008>>, <<73030, 73030>>, <<73040, 73049>>, <<73056, 73061>>,
      <<73063, 73064>>, <<73066, 73097>>, <<73112, 73112>>, <<73120, 73129>>,
      <<73440, 73458>>, <<73648, 73648>>, <<73664, 73684>>, <<73728, 74649>>,
      <<74752, 74862>>, <<74880, 75075>>, <<77712, 77808>>, <<77824, 78894>>,
      <<82944, 83526>>, <<92160, 92728>>, <<92736, 92766>>, <<92768, 92777>>,
      <<92784, 92862>>, <<92864, 92873>>, <<92880, 92909>>, <<92928, 92975>>,
      <<92992, 92995>>, <<93008, 93017>>, <<93019, 93025>>, <<93027, 93047>>,
      <<93053, 93071>>, <<93760, 93846>>, <<93952, 94026>>, <<94032, 94032>>,
      <<94099, 94111>>, <<94176, 94177>>, <<94179, 94179>>, <<94208, 100343>>,
      <<100352, 101589>>, <<101632, 101640>>, <<110576, 110579>>,
      <<110581, 110587>>, <<110589, 110590>>, <<110592, 110882>>,
      <<110928, 110930>>, <<110948, 110951>>, <<110960, 111355>>,
      <<113664, 113770>>, <<113776, 113788>>, <<113792, 113800>>,
      <<113808, 113817>>, <<119520, 119539>>, <<119648, 119672>>,
      <<119808, 119892>>, <<119894, 119964>>, <<119966, 119967>>,
      <<119970, 119970>>, <<119973, 119974>>, <<119977, 119980>>,
      <<119982, 119993>>, <<119995, 119995>>, <<119997, 120003>>,
      <<120005, 120069>>, <<120071, 120074>>, <<120077, 120084>>,
      <<120086, 120092>>, <<120094, 120121>>, <<120123, 120126>>,
      <<120128, 120132>>, <<120134, 120134>>, <<120138, 120144>>,
      <<120146, 120485>>, <<120488, 120512>>, <<120514, 120538>>,
      <<120540, 120570>>, <<120572, 120596>>, <<120598, 120628>>,
      <<120630, 120654>>, <<120656, 120686>>, <<120688, 120712>>,
      <<120714, 120744>>, <<120746, 120770>>, <<120772, 120779>>,
      <<120782, 120831>>, <<122624, 122654>>, <<123136, 123180>>,
      <<123191, 123197>>, <<123200, 123209>>, <<123214, 123214>>,
      <<123536, 123565>>, <<123584, 123627>>, <<123632, 123641>>,
      <<124896, 124902>>, <<124904, 124907>>, <<124909, 124910>>,
      <<124912, 124926>>, <<124928, 125124>>, <<125127, 125135>>,
      <<125184, 125251>>, <<125259, 125259>>, <<125264, 125273>>,
      <<126065, 126123>>, <<126125, 126127>>, <<126129, 126132>>,
      <<126209, 126253>>, <<126255, 126269>>, <<126464, 126467>>,
      <<126469, 126495>>, <<126497, 126498>>, <<126500, 126500>>,
      <<126503, 126503>>, <<126505, 126514>>, <<126516, 126519>>,
      <<126521, 126521>>, <<126523, 126523>>, <<126530, 126530>>,
      <<126535, 126535>>, <<126537, 126537>>, <<126539, 126539>>,
      <<126541, 126543>>, <<126545, 126546>>, <<126548, 126548>>,
      <<126551, 126551>>, <<126553, 126553>>, <<126555, 126555>>,
      <<126557, 126557>>, <<126559, 126559>>, <<126561, 126562>>,
      <<126564, 126564>>, <<126567, 126570>>, <<126572, 126578>>,
      <<126580, 126583>>, <<126585, 126588>>, <<126590, 126590>>,
      <<126592, 126601>>, <<126603, 126619>>, <<126625, 126627>>,
      <<126629, 126633>>, <<126635, 126651>>, <<127232, 127244>>,
      <<130032, 130041>>, <<131072, 173791>>, <<173824, 177976>>,
      <<177984, 178205>>, <<178208, 183969>>, <<183984, 191456>>,
      <<194560, 195101>>, <<196608, 201546>> >>

InRanges(c, ranges) ==
    \E k \in 1..Len(ranges) : ranges[k][1] <= c /\ c <= ranges[k][2]

IsWord(c) == IF c < 128 THEN c \in AsciiWord ELSE InRanges(c, WordRanges)

\* The characters of t at the positions j where keep[j] holds, in order.
Filter(t, keep) ==
    LET tagged == [j \in 1..Len(t) |-> <<t[j], keep[j]>>]
        kept   == SelectSeq(tagged, LAMBDA p : p[2])
    IN  <<>> \o [m \in 1..Len(kept) |-> kept[m][1]]

\* The position of the first character of t that is no whitespace.
FirstNonSpace(t) ==
    CHOOSE i \in 1..Len(t) : ~IsSpace(t[i]) /\ \A j \in 1..(i-1) : IsSpace(t[j])

\* t from its last character to its first.
Reverse(t) == <<>> \o [j \in 1..Len(t) |-> t[Len(t) + 1 - j]]

\* str.strip(): t without its leading and trailing whitespace.
Strip(t) ==
    IF \A j \in 1..Len(t) : IsSpace(t[j]) THEN <<>>
    ELSE SubSeq(t, FirstNonSpace(t), Len(t) + 1 - FirstNonSpace(Reverse(t)))

\* t holds the characters of w from position i on (i a position of t, w
\* not empty).
HasAt(t, i, w) ==
    /\ t[i] = w[1]
    /\ i + Len(w) - 1 <= Len(t)
    /\ \A k \in 2..Len(w) : t[i + k - 1] = w[k]

\* One alternative of the URL pattern, prefix\S+, matches at i.
PrefixThenNonSpace(t, i, prefix) ==
    /\ HasAt(t, i, prefix)
    /\ i + Len(prefix) <= Len(t)
    /\ ~IsSpace(t[i + Len(prefix)])

Http == Text(<<"h","t","t","p">>)

Www == Text(<<"w","w","w">>)

Https == Text(<<"h","t","t","p","s">>)

\* r'http\S+|www\S+|https\S+' matches at position i.
UrlAt(t, i) ==
    \/ PrefixThenNonSpace(t, i, Http)
    \/ PrefixThenNonSpace(t, i, Www)
    \/ PrefixThenNonSpace(t, i, Https)

\* re.sub(r'http\S+|www\S+|https\S+', '', text): a match is greedy and runs
\* to the end of its whitespace-free run, so position j is deleted exactly
\* when a match starts at or before j with no whitespace in between.
RemoveUrls(t) ==
    LET starts == {i \in 1..Len(t) : UrlAt(t, i)}
        keep == [j \in 1..Len(t) |->
                    \A i \in starts : i > j \/ \E k \in i..j : IsSpace(t[k])]
    IN  Filter(t, keep)

\* The characters '@' and '#'.
Signs == {Ord("@"), Ord("#")}

\* r'@\w+|#\w+' matches at position i.
MentionAt(t, i) ==
    /\ t[i] \in Signs
    /\ i + 1 <= Len(t)
    /\ IsWord(t[i + 1])

\* re.sub(r'@\w+|#\w+', '', text): the sign and the word run after it go.
RemoveMentions(t) ==
    LET starts == {i \in 1..Len(t) : MentionAt(t, i)}
        keep == [j \in 1..Len(t) |->
                    \A i \in starts : i > j \/ \E k \in (i+1)..j : ~IsWord(t[k])]
    IN  Filter(t, keep)

FullStop == Ord(".")

\* RemovePunctuation with the full stop left out of what is removed.
RemovePunctuationKeepDot(t) ==
    SelectSeq(t, LAMBDA c : IsWord(c) \/ IsSpace(c) \/ c = FullStop)

\* re.sub(r'[^\w\s]', '', text)
RemovePunctuation(t) ==
    SelectSeq(t, LAMBDA c : IsWord(c) \/ IsSpace(c))

Space == Ord(" ")

\* ' '.join(text.split()): the words of t, one space between two of them.
JoinSplit(t) ==
    LET keep == [j \in 1..Len(t) |->
                    \/ ~IsSpace(t[j])
                    \/ /\ j > 1
                       /\ ~IsSpace(t[j - 1])
                       /\ \E k \in (j+1)..Len(t) : ~IsSpace(t[k])]
        kept == Filter(t, keep)
    IN  <<>> \o [m \in 1..Len(kept) |-> IF IsSpace(kept[m]) THEN Space ELSE kept[m]]

\* clean_text without its first step, the removal of URLs.
clean_text_keeping_urls(text) ==
    Strip(JoinSplit(RemovePunctuation(RemoveMentions(text))))

\* clean_text of a str argument (the handlers never pass anything else).
clean_text(text) ==
    Strip(JoinSplit(RemovePunctuation(RemoveMentions(RemoveUrls(text)))))

-----------------------------------------------------------------------------
(* clean_text on its own: every text made of at most MaxTokens tokens is   *)
(* cleaned once and then cleaned again.  Among the tokens are a letter     *)
(* that is not ASCII, 'e' with an acute accent, and a whitespace character *)
(* that is not ASCII, the no-break space.                                  *)

MaxTokens == 4

EAcute == <<233>>

NoBreakSpace == <<160>>

Tokens ==
    { Http, Text(<<"w","w">>), Text(<<"w">>), Text(<<"a">>), Text(<<"s">>),
      Text(<<"_">>), EAcute, Text(<<".">>), Text(<<"@">>), Text(<<"#">>),
      Text(<<" ">>), NoBreakSpace }

RECURSIVE TextsOf(_)
TextsOf(n) ==
    IF n = 0 THEN {<<>>}
    ELSE LET shorter == TextsOf(n - 1)
         IN  shorter \cup {s \o tk : s \in shorter, tk \in Tokens}

CleanInit ==
    cleaner \in [stage : {0}, text : TextsOf(MaxTokens), once : {<<>>}, twice : {<<>>}]

CleanOnce ==
    /\ cleaner.stage = 0
    /\ cleaner' = [cleaner EXCEPT !.stage = 1, !.once = clean_text(cleaner.text)]
    /\ UNCHANGED <<pc, req, resp, texts, results, idx, hits, clock, handled, allFailed,
                   scored, classifier>>

CleanTwice ==
    /\ cleaner.stage = 1
    /\ cleaner' = [cleaner EXCEPT !.stage = 2, !.twice = clean_text(cleaner.once)]
    /\ UNCHANGED <<pc, req, resp, texts, results, idx, hits, clock, handled, allFailed,
                   scored, classifier>>

-----------------------------------------------------------------------------
(* JSON values as the handlers see them after request.get_json().          *)

JStr(s) == [type |-> "str", s |-> s, n |-> 0, items |-> <<>>]

JInt(n) == [type |-> "int", s |-> <<>>, n |-> n, items |-> <<>>]

JBool(b) == [type |-> "bool", s |-> <<>>, n |-> IF b THEN 1 ELSE 0, items |-> <<>>]

JNull == [type |-> "null", s |-> <<>>, n |-> 0, items |-> <<>>]

JList(items) == [type |-> "list", s |-> <<>>, n |-> 0, items |-> items]

\* A member of an object: the key and, the one item, the value.
Member(key, value) == [type |-> "member", s |-> key, n |-> 0, items |-> <<value>>]

JObject(members) == [type |-> "object", s |-> <<>>, n |-> 0, items |-> members]

\* isinstance(v, str)
IsStr(v) == v.type = "str"

\* isinstance(v, list)
IsList(v) == v.type = "list"

\* bool(v): `not v` is its negation.
Truthy(v) ==
    CASE v.type = "str"    -> Len(v.s) > 0
      [] v.type = "int"    -> v.n # 0
      [] v.type = "bool"   -> v.n = 1
      [] v.type = "null"   -> FALSE
      [] v.type = "list"   -> Len(v.items) > 0
      [] v.type = "object" -> Len(v.items) > 0

\* key in v, for a dict v
HasKey(v, key) == \E k \in 1..Len(v.items) : v.items[k].s = key

\* v[key], for a dict v that has the key
Get(v, key) == v.items[CHOOSE k \in 1..Len(v.items) : v.items[k].s = key].items[1]

\* The texts of a sequence from lo to hi, one after the other.
RECURSIVE Flatten(_, _, _)
Flatten(pieces, lo, hi) ==
    IF lo > hi THEN <<>>
    ELSE IF lo = hi THEN pieces[lo]
    ELSE LET mid == (lo + hi) \div 2
         IN  Flatten(pieces, lo, mid) \o Flatten(pieces, mid + 1, hi)

\* sep.join(pieces)
Join(pieces, sep) ==
    Flatten([k \in 1..Len(pieces) |-> IF k = 1 THEN pieces[k] ELSE sep \o pieces[k]],
            1, Len(pieces))

DigitChar(d) == Ord("0") + d

RECURSIVE Decimal(_)
Decimal(n) ==
    IF n < 10 THEN <<DigitChar(n)>>
    ELSE Decimal(n \div 10) \o <<DigitChar(n % 10)>>

HexDigits == Text(<<"0","1","2","3","4","5","6","7","8","9","a","b","c","d","e","f">>)

\* n in hexadecimal, width digits.
RECURSIVE Hex(_, _)
Hex(n, width) ==
    IF width = 0 THEN <<>>
    ELSE Hex(n \div 16, width - 1) \o <<HexDigits[(n % 16) + 1]>>

\* The code points c from 128 on with chr(c).isprintable(), as ranges
\* <<first, last>>.
PrintableRanges ==
    << <<161, 172>>, <<174, 887>>, <<890, 895>>, <<900, 906>>, <<908, 908>>,
      <<910, 929>>, <<931, 1327>>, <<1329, 1366>>, <<1369, 1418>>,
      <<1421, 1423>>, <<1425, 1479>>, <<1488, 1514>>, <<1519, 1524>>,
      <<1542, 1563>>, <<1565, 1756>>, <<1758, 1805>>, <<1808, 1866>>,
      <<1869, 1969>>, <<1984, 2042>>, <<2045, 2093>>, <<2096, 2110>>,
      <<2112, 2139>>, <<2142, 2142>>, <<2144, 2154>>, <<2160, 2190>>,
      <<2200, 2273>>, <<2275, 2435>>, <<2437, 2444>>, <<2447, 2448>>,
      <<2451, 2472>>, <<2474, 2480>>, <<2482, 2482>>, <<2486, 2489>>,
      <<2492, 2500>>, <<2503, 2504>>, <<2507, 2510>>, <<2519, 2519>>,
      <<2524, 2525>>, <<2527, 2531>>, <<2534, 2558>>, <<2561, 2563>>,
      <<2565, 2570>>, <<2575, 2576>>, <<2579, 2600>>, <<2602, 2608>>,
      <<2610, 2611>>, <<2613, 2614>>, <<2616, 2617>>, <<2620, 2620>>,
      <<2622, 2626>>, <<2631, 2632>>, <<2635, 2637>>, <<2641, 2641>>,
      <<2649, 2652>>, <<2654, 2654>>, <<2662, 2678>>, <<2689, 2691>>,
      <<2693, 2701>>, <<2703, 2705>>, <<2707, 2728>>, <<2730, 2736>>,
      <<2738, 2739>>, <<2741, 2745>>, <<2748, 2757>>, <<2759, 2761>>,
      <<2763, 2765>>, <<2768, 2768>>, <<2784, 2787>>, <<2790, 2801>>,
      <<2809, 2815>>, <<2817, 2819>>, <<2821, 2828>>, <<2831, 2832>>,
      <<2835, 2856>>, <<2858, 2864>>, <<2866, 2867>>, <<2869, 2873>>,
      <<2876, 2884>>, <<2887, 2888>>, <<2891, 2893>>, <<2901, 2903>>,
      <<2908, 2909>>, <<2911, 2915>>, <<2918, 2935>>, <<2946, 2947>>,
      <<2949, 2954>>, <<2958, 2960>>, <<2962, 2965>>, <<2969, 2970>>,
      <<2972, 2972>>, <<2974, 2975>>, <<2979, 2980>>, <<2984, 2986>>,
      <<2990, 3001>>, <<3006, 3010>>, <<3014, 3016>>, <<3018, 3021>>,
      <<3024, 3024>>, <<3031, 3031>>, <<3046, 3066>>, <<3072, 3084>>,
      <<3086, 3088>>, <<3090, 3112>>, <<3114, 3129>>, <<3132, 3140>>,
      <<3142, 3144>>, <<3146, 3149>>, <<3157, 3158>>, <<3160, 3162>>,
      <<3165, 3165>>, <<3168, 3171>>, <<3174, 3183>>, <<3191, 3212>>,
      <<3214, 3216>>, <<3218, 3240>>, <<3242, 3251>>, <<3253, 3257>>,
      <<3260, 3268>>, <<3270, 3272>>, <<3274, 3277>>, <<3285, 3286>>,
      <<3293, 3294>>, <<3296, 3299>>, <<3302, 3311>>, <<3313, 3314>>,
      <<3328, 3340>>, <<3342, 3344>>, <<3346, 3396>>, <<3398, 3400>>,
      <<3402, 3407>>, <<3412, 3427>>, <<3430, 3455>>, <<3457, 3459>>,
      <<3461, 3478>>, <<3482, 3505>>, <<3507, 3515>>, <<3517, 3517>>,
      <<3520, 3526>>, <<3530, 3530>>, <<3535, 3540>>, <<3542, 3542>>,
      <<3544, 3551>>, <<3558, 3567>>, <<3570, 3572>>, <<3585, 3642>>,
      <<3647, 3675>>, <<3713, 3714>>, <<3716, 3716>>, <<3718, 3722>>,
      <<3724, 3747>>, <<3749, 3749>>, <<3751, 3773>>, <<3776, 3780>>,
      <<3782, 3782>>, <<3784, 3789>>, <<3792, 3801>>, <<3804, 3807>>,
      <<3840, 3911>>, <<3913, 3948>>, <<3953, 3991>>, <<3993, 4028>>,
      <<4030, 4044>>, <<4046, 4058>>, <<4096, 4293>>, <<4295, 4295>>,
      <<4301, 4301>>, <<4304, 4680>>, <<4682, 4685>>, <<4688, 4694>>,
      <<4696, 4696>>, <<4698, 4701>>, <<4704, 4744>>, <<4746, 4749>>,
      <<4752, 4784>>, <<4786, 4789>>, <<4792, 4798>>, <<4800, 4800>>,
      <<4802, 4805>>, <<4808, 4822>>, <<4824, 4880>>, <<4882, 4885>>,
      <<4888, 4954>>, <<4957, 4988>>, <<4992, 5017>>, <<5024, 5109>>,
      <<5112, 5117>>, <<5120, 5759>>, <<5761, 5788>>, <<5792, 5880>>,
      <<5888, 5909>>, <<5919, 5942>>, <<5952, 5971>>, <<5984, 5996>>,
      <<5998, 6000>>, <<6002, 6003>>, <<6016, 6109>>, <<6112, 6121>>,
      <<6128, 6137>>, <<6144, 6157>>, <<6159, 6169>>, <<6176, 6264>>,
      <<6272, 6314>>, <<6320, 6389>>, <<6400, 6430>>, <<6432, 6443>>,
      <<6448, 6459>>, <<6464, 6464>>, <<6468, 6509>>, <<6512, 6516>>,
      <<6528, 6571>>, <<6576, 6601>>, <<6608, 6618>>, <<6622, 6683>>,
      <<6686, 6750>>, <<6752, 6780>>, <<6783, 6793>>, <<6800, 6809>>,
      <<6816, 6829>>, <<6832, 6862>>, <<6912, 6988>>, <<6992, 7038>>,
      <<7040, 7155>>, <<7164, 7223>>, <<7227, 7241>>, <<7245, 7304>>,
      <<7312, 7354>>, <<7357, 7367>>, <<7376, 7418>>, <<7424, 7957>>,
      <<7960, 7965>>, <<7968, 8005>>, <<8008, 8013>>, <<8016, 8023>>,
      <<8025, 8025>>, <<8027, 8027>>, <<8029, 8029>>, <<8031, 8061>>,
      <<8064, 8116>>, <<8118, 8132>>, <<8134, 8147>>, <<8150, 8155>>,
      <<8157, 8175>>, <<8178, 8180>>, <<8182, 8190>>, <<8208, 8231>>,
      <<8240, 8286>>, <<8304, 8305>>, <<8308, 8334>>, <<8336, 8348>>,
      <<8352, 8384>>, <<8400, 8432>>, <<8448, 8587>>, <<8592, 9254>>,
      <<9280, 9290>>, <<9312, 11123>>, <<11126, 11157>>, <<11159, 11507>>,
      <<11513, 11557>>, <<11559, 11559>>, <<11565, 11565>>, <<11568, 11623>>,
      <<11631, 11632>>, <<11647, 11670>>, <<11680, 11686>>, <<11688, 11694>>,
      <<11696, 11702>>, <<11704, 11710>>, <<11712, 11718>>, <<11720, 11726>>,
      <<11728, 11734>>, <<11736, 11742>>, <<11744, 11869>>, <<11904, 11929>>,
      <<11931, 12019>>, <<12032, 12245>>, <<12272, 12283>>, <<12289, 12351>>,
      <<12353, 12438>>, <<12441, 12543>>, <<12549, 12591>>, <<12593, 12686>>,
      <<12688, 12771>>, <<12784, 12830>>, <<12832, 42124>>, <<42128, 42182>>,
      <<42192, 42539>>, <<42560, 42743>>, <<42752, 42954>>, <<42960, 42961>>,
      <<42963, 42963>>, <<42965, 42969>>, <<42994, 43052>>, <<43056, 43065>>,
      <<43072, 43127>>, <<43136, 43205>>, <<43214, 43225>>, <<43232, 43347>>,
      <<43359, 43388>>, <<43392, 43469>>, <<43471, 43481>>, <<43486, 43518>>,
      <<43520, 43574>>, <<43584, 43597>>, <<43600, 43609>>, <<43612, 43714>>,
      <<43739, 43766>>, <<43777, 43782>>, <<43785, 43790>>, <<43793, 43798>>,
      <<43808, 43814>>, <<43816, 43822>>, <<43824, 43883>>, <<43888, 44013>>,
      <<44016, 44025>>, <<44032, 55203>>, <<55216, 55238>>, <<55243, 55291>>,
      <<63744, 64109>>, <<64112, 64217>>, <<64256, 64262>>, <<64275, 64279>>,
      <<64285, 64310>>, <<64312, 64316>>, <<64318, 64318>>, <<64320, 64321>>,
      <<64323, 64324>>, <<64326, 64450>>, <<64467, 64911>>, <<64914, 64967>>,
      <<64975, 64975>>, <<65008, 65049>>, <<65056, 65106>>, <<65108, 65126>>,
      <<65128, 65131>>, <<65136, 65140>>, <<65142, 65276>>, <<65281, 65470>>,
      <<65474, 65479>>, <<65482, 65487>>, <<65490, 65495>>, <<65498, 65500>>,
      <<65504, 65510>>, <<65512, 65518>>, <<65532, 65533>>, <<65536, 65547>>,
      <<65549, 65574>>, <<65576, 65594>>, <<65596, 65597>>, <<65599, 65613>>,
      <<65616, 65629>>, <<65664, 65786>>, <<65792, 65794>>, <<65799, 65843>>,
      <<65847, 65934>>, <<65936, 65948>>, <<65952, 65952>>, <<66000, 66045>>,
      <<66176, 66204>>, <<66208, 66256>>, <<66272, 66299>>, <<66304, 66339>>,
      <<66349, 66378>>, <<66384, 66426>>, <<66432, 66461>>, <<66463, 66499>>,
      <<66504, 66517>>, <<66560, 66717>>, <<66720, 66729>>, <<66736, 66771>>,
      <<66776, 66811>>, <<66816, 66855>>, <<66864, 66915>>, <<66927, 66938>>,
      <<66940, 66954>>, <<66956, 66962>>, <<66964, 66965>>, <<66967, 66977>>,
      <<66979, 66993>>, <<66995, 67001>>, <<67003, 67004>>, <<67072, 67382>>,
      <<67392, 67413>>, <<67424, 67431>>, <<67456, 67461>>, <<67463, 67504>>,
      <<67506, 67514>>, <<67584, 67589>>, <<67592, 67592>>, <<67594, 67637>>,
      <<67639, 67640>>, <<67644, 67644>>, <<67647, 67669>>, <<67671, 67742>>,
      <<67751, 67759>>, <<67808, 67826>>, <<67828, 67829>>, <<67835, 67867>>,
      <<67871, 67897>>, <<67903, 67903>>, <<67968, 68023>>, <<68028, 68047>>,
      <<68050, 68099>>, <<68101, 68102>>, <<68108, 68115>>, <<68117, 68119>>,
      <<68121, 68149>>, <<68152, 68154>>, <<68159, 68168>>, <<68176, 68184>>,
      <<68192, 68255>>, <<68288, 68326>>, <<68331, 68342>>, <<68352, 68405>>,
      <<68409, 68437>>, <<68440, 68466>>, <<68472, 68497>>, <<68505, 68508>>,
      <<68521, 68527>>, <<68608, 68680>>, <<68736, 68786>>, <<68800, 68850>>,
      <<68858, 68903>>, <<68912, 68921>>, <<69216, 69246>>, <<69248, 69289>>,
      <<69291, 69293>>, <<69296, 69297>>, <<69376, 69415>>, <<69424, 69465>>,
      <<69488, 69513>>, <<69552, 69579>>, <<69600, 69622>>, <<69632, 69709>>,
      <<69714, 69749>>, <<69759, 69820>>, <<69822, 69826>>, <<69840, 69864>>,
      <<69872, 69881>>, <<69888, 69940>>, <<69942, 69959>>, <<69968, 70006>>,
      <<70016, 70111>>, <<70113, 70132>>, <<70144, 70161>>, <<70163, 70206>>,
      <<70272, 70278>>, <<70280, 70280>>, <<70282, 70285>>, <<70287, 70301>>,
      <<70303, 70313>>, <<70320, 70378>>, <<70384, 70393>>, <<70400, 70403>>,
      <<70405, 70412>>, <<70415, 70416>>, <<70419, 70440>>, <<70442, 70448>>,
      <<70450, 70451>>, <<70453, 70457>>, <<70459, 70468>>, <<70471, 70472>>,
      <<70475, 70477>>, <<70480, 70480>>, <<70487, 70487>>, <<70493, 70499>>,
      <<70502, 70508>>, <<70512, 70516>>, <<70656, 70747>>, <<70749, 70753>>,
      <<70784, 70855>>, <<70864, 70873>>, <<71040, 71093>>, <<71096, 71133>>,
      <<71168, 71236>>, <<71248, 71257>>, <<71264, 71276>>, <<71296, 71353>>,
      <<71360, 71369>>, <<71424, 71450>>, <<71453, 71467>>, <<71472, 71494>>,
      <<71680, 71739>>, <<71840, 71922>>, <<71935, 71942>>, <<71945, 71945>>,
      <<71948, 71955>>, <<71957, 71958>>, <<71960, 71989>>, <<71991, 71992>>,
      <<71995, 72006>>, <<72016, 72025>>, <<72096, 72103>>, <<72106, 72151>>,
      <<72154, 72164>>, <<72192, 72263>>, <<72272, 72354>>, <<72368, 72440>>,
      <<72704, 72712>>, <<72714, 72758>>, <<72760, 72773>>, <<72784, 72812>>,
      <<72816, 72847>>, <<72850, 72871>>, <<72873, 72886>>, <<72960, 72966>>,
      <<72968, 72969>>, <<72971, 73014>>, <<73018, 73018>>, <<73020, 73021>>,
      <<73023, 73031>>, <<73040, 73049>>, <<73056, 73061>>, <<73063, 73064>>,
      <<73066, 73102>>, <<73104, 73105>>, <<73107, 73112>>, <<73120, 73129>>,
      <<73440, 73464>>, <<73648, 73648>>, <<73664, 73713>>, <<73727, 74649>>,
      <<74752, 74862>>, <<74864, 74868>>, <<74880, 75075>>, <<77712, 77810>>,
      <<77824, 78894>>, <<82944, 83526>>, <<92160, 92728>>, <<92736, 92766>>,
      <<92768, 92777>>, <<92782, 92862>>, <<92864, 92873>>, <<92880, 92909>>,
      <<92912, 92917>>, <<92928, 92997>>, <<93008, 93017>>, <<93019, 93025>>,
      <<93027, 93047>>, <<93053, 93071>>, <<93760, 93850>>, <<93952, 94026>>,
      <<94031, 94087>>, <<94095, 94111>>, <<94176, 94180>>, <<94192, 94193>>,
      <<94208, 100343>>, <<100352, 101589>>, <<101632, 101640>>,
      <<110576, 110579>>, <<110581, 110587>>, <<110589, 110590>>,
      <<110592, 110882>>, <<110928, 110930>>, <<110948, 110951>>,
      <<110960, 111355>>, <<113664, 113770>>, <<113776, 113788>>,
      <<113792, 113800>>, <<113808, 113817>>, <<113820, 113823>>,
      <<118528, 118573>>, <<118576, 118598>>, <<118608, 118723>>,
      <<118784, 119029>>, <<119040, 119078>>, <<119081, 119154>>,
      <<119163, 119274>>, <<119296, 119365>>, <<119520, 119539>>,
      <<119552, 119638>>, <<119648, 119672>>, <<119808, 119892>>,
      <<119894, 119964>>, <<119966, 119967>>, <<119970, 119970>>,
      <<119973, 119974>>, <<119977, 119980>>, <<119982, 119993>>,
      <<119995, 119995>>, <<119997, 120003>>, <<120005, 120069>>,
      <<120071, 120074>>, <<120077, 120084>>, <<120086, 120092>>,
      <<120094, 120121>>, <<120123, 120126>>, <<120128, 120132>>,
      <<120134, 120134>>, <<120138, 120144>>, <<120146, 120485>>,
      <<120488, 120779>>, <<120782, 121483>>, <<121499, 121503>>,
      <<121505, 121519>>, <<122624, 122654>>, <<122880, 122886>>,
      <<122888, 122904>>, <<122907, 122913>>, <<122915, 122916>>,
      <<122918, 122922>>, <<123136, 123180>>, <<123184, 123197>>,
      <<123200, 123209>>, <<123214, 123215>>, <<123536, 123566>>,
      <<123584, 123641>>, <<123647, 123647>>, <<124896, 124902>>,
      <<124904, 124907>>, <<124909, 124910>>, <<124912, 124926>>,
      <<124928, 125124>>, <<125127, 125142>>, <<125184, 125259>>,
      <<125264, 125273>>, <<125278, 125279>>, <<126065, 126132>>,
      <<126209, 126269>>, <<126464, 126467>>, <<126469, 126495>>,
      <<126497, 126498>>, <<126500, 126500>>, <<126503, 126503>>,
      <<126505, 126514>>, <<126516, 126519>>, <<126521, 126521>>,
      <<126523, 126523>>, <<126530, 126530>>, <<126535, 126535>>,
      <<126537, 126537>>, <<126539, 126539>>, <<126541, 126543>>,
      <<126545, 126546>>, <<126548, 126548>>, <<126551, 126551>>,
      <<126553, 126553>>, <<126555, 126555>>, <<126557, 126557>>,
      <<126559, 126559>>, <<126561, 126562>>, <<126564, 126564>>,
      <<126567, 126570>>, <<126572, 126578>>, <<126580, 126583>>,
      <<126585, 126588>>, <<126590, 126590>>, <<126592, 126601>>,
      <<126603, 126619>>, <<126625, 126627>>, <<126629, 126633>>,
      <<126635, 126651>>, <<126704, 126705>>, <<126976, 127019>>,
      <<127024, 127123>>, <<127136, 127150>>, <<127153, 127167>>,
      <<127169, 127183>>, <<127185, 127221>>, <<127232, 127405>>,
      <<127462, 127490>>, <<127504, 127547>>, <<127552, 127560>>,
      <<127568, 127569>>, <<127584, 127589>>, <<127744, 128727>>,
      <<128733, 128748>>, <<128752, 128764>>, <<128768, 128883>>,
      <<128896, 128984>>, <<128992, 129003>>, <<129008, 129008>>,
      <<129024, 129035>>, <<129040, 129095>>, <<129104, 129113>>,
      <<129120, 129159>>, <<129168, 129197>>, <<129200, 129201>>,
      <<129280, 129619>>, <<129632, 129645>>, <<129648, 129652>>,
      <<129656, 129660>>, <<129664, 129670>>, <<129680, 129708>>,
      <<129712, 129722>>, <<129728, 129733>>, <<129744, 129753>>,
      <<129760, 129767>>, <<129776, 129782>>, <<129792, 129938>>,
      <<129940, 129994>>, <<130032, 130041>>, <<131072, 173791>>,
      <<173824, 177976>>, <<177984, 178205>>, <<178208, 183969>>,
      <<183984, 191456>>, <<194560, 195101>>, <<196608, 201546>>,
      <<917760, 917999>> >>

\* str.isprintable() of one character.
IsPrintable(c) == IF c < 128 THEN c \in 32..126 ELSE InRanges(c, PrintableRanges)

Backslash == Ord("\\")

\* What repr() writes for the character c of a str, between quotes of the
\* kind quote.
ReprChar(c, quote) ==
    IF c = quote \/ c = Backslash THEN <<Backslash, c>>
    ELSE IF c = Ord("\t") THEN <<Backslash, Ord("t")>>
    ELSE IF c = Ord("\n") THEN <<Backslash, Ord("n")>>
    ELSE IF c = Ord("\r") THEN <<Backslash, Ord("r")>>
    ELSE IF IsPrintable(c) THEN <<c>>
    ELSE IF c < 256 THEN <<Backslash, Ord("x")>> \o Hex(c, 2)
    ELSE IF c < 65536 THEN <<Backslash, Ord("u")>> \o Hex(c, 4)
    ELSE <<Backslash, Ord("U")>> \o Hex(c, 8)

\* repr(s) of a str: in single quotes, or in double quotes when s holds a
\* single quote and no double quote.
ReprStr(s) ==
    LET single == Ord("'")
        double == Ord("\"")
        quote  == IF /\ \E j \in 1..Len(s) : s[j] = single
                     /\ \A j \in 1..Len(s) : s[j] # double
                  THEN double ELSE single
    IN  <<quote>> \o Flatten([j \in 1..Len(s) |-> ReprChar(s[j], quote)], 1, Len(s))
                  \o <<quote>>

\* str(v), and repr(v), which a list and a dict print their members with.
RECURSIVE PyStr(_), PyRepr(_)
PyRepr(v) == IF v.type = "str" THEN ReprStr(v.s) ELSE PyStr(v)

PyStr(v) ==
    CASE v.type = "str"  -> v.s
      [] v.type = "int"  -> IF v.n < 0 THEN Text(<<"-">>) \o Decimal(-v.n) ELSE Decimal(v.n)
      [] v.type = "bool" -> IF v.n = 1 THEN Text(<<"T","r","u","e">>)
                            ELSE Text(<<"F","a","l","s","e">>)
      [] v.type = "null" -> Text(<<"N","o","n","e">>)
      [] v.type = "list" ->
            Text(<<"[">>)
            \o Join([k \in 1..Len(v.items) |-> PyRepr(v.items[k])], Text(<<",", " ">>))
            \o Text(<<"]">>)
      [] v.type = "object" ->
            Text(<<"{">>)
            \o Join([k \in 1..Len(v.items) |->
                        ReprStr(v.items[k].s) \o Text(<<":", " ">>)
                                              \o PyRepr(v.items[k].items[1])],
                    Text(<<",", " ">>))
            \o Text(<<"}">>)

-----------------------------------------------------------------------------
(* Scores are Python floats, binary64 numbers, and the arithmetic on them  *)
(* rounds to the nearest one, ties to the even one.  A natural number is   *)
(* written in binary digits, lowest first, without zeros at the high end.  *)

\* The digits of a binary64 significand.
Precision == 53

\* The exponent of the lowest digit of the smallest binary64 numbers.
MinExp == -1074

Zeros(k) == [j \in 1..k |-> 0]

RECURSIVE NatBits(_)
NatBits(n) == IF n = 0 THEN <<>> ELSE <<n % 2>> \o NatBits(n \div 2)

\* b without the zeros at its high end.
TrimHigh(b) ==
    IF \A j \in 1..Len(b) : b[j] = 0 THEN <<>>
    ELSE SubSeq(b, 1, CHOOSE i \in 1..Len(b) :
                          b[i] = 1 /\ \A j \in (i+1)..Len(b) : b[j] = 0)

\* The digit of b at position i, 0 beyond its length.
Digit(b, i) == IF i <= Len(b) THEN b[i] ELSE 0

\* The digits lo..hi of a + b, and the carry out of them, carry coming in.
RECURSIVE AddDigits(_, _, _, _, _)
AddDigits(a, b, lo, hi, carry) ==
    IF lo = hi
    THEN LET sum == Digit(a, lo) + Digit(b, lo) + carry
         IN  [digits |-> <<sum % 2>>, carry |-> sum \div 2]
    ELSE LET mid  == (lo + hi) \div 2
             low  == AddDigits(a, b, lo, mid, carry)
             high == AddDigits(a, b, mid + 1, hi, low.carry)
         IN  [digits |-> low.digits \o high.digits, carry |-> high.carry]

\* a + b
BitsAdd(a, b) ==
    LET n == IF Len(a) > Len(b) THEN Len(a) ELSE Len(b)
        sum == AddDigits(a, b, 1, n, 0)
    IN  IF n = 0 THEN <<>>
        ELSE IF sum.carry = 1 THEN Append(sum.digits, 1)
        ELSE sum.digits

\* The digits lo..hi of a - b, and the borrow out of them, borrow coming in.
RECURSIVE SubDigits(_, _, _, _, _)
SubDigits(a, b, lo, hi, borrow) ==
    IF lo = hi
    THEN LET diff == Digit(a, lo) - Digit(b, lo) - borrow
         IN  [digits |-> <<(diff + 2) % 2>>, borrow |-> IF diff < 0 THEN 1 ELSE 0]
    ELSE LET mid  == (lo + hi) \div 2
             low  == SubDigits(a, b, lo, mid, borrow)
             high == SubDigits(a, b, mid + 1, hi, low.borrow)
         IN  [digits |-> low.digits \o high.digits, borrow |-> high.borrow]

\* a - b, for a >= b
BitsSub(a, b) ==
    IF Len(a) = 0 THEN <<>> ELSE TrimHigh(SubDigits(a, b, 1, Len(a), 0).digits)

\* a < b
BitsLess(a, b) ==
    \/ Len(a) < Len(b)
    \/ /\ Len(a) = Len(b)
       /\ \E i \in 1..Len(a) :
             a[i] < b[i] /\ \A j \in (i+1)..Len(a) : a[j] = b[j]

\* The number (-1)^neg * man * 2^exp, written with an odd man, or as zero.
Float(neg, man, exp) ==
    LET m == TrimHigh(man) IN
    IF m = <<>> THEN [neg |-> neg, man |-> <<>>, exp |-> 0]
    ELSE LET low == CHOOSE i \in 1..Len(m) : m[i] = 1 /\ \A j \in 1..(i-1) : m[j] = 0
         IN  [neg |-> neg, man |-> SubSeq(m, low, Len(m)), exp |-> exp + low - 1]

IsZero(x) == x.man = <<>>

\* 2^(Top(x) - 1) <= |x| < 2^Top(x), for x not zero.
Top(x) == x.exp + Len(x.man)

\* The binary64 number nearest to x, ties to even (x below the overflow range).
RoundToDouble(x) ==
    IF IsZero(x) THEN x
    ELSE LET lowest == IF Top(x) - Precision > MinExp THEN Top(x) - Precision ELSE MinExp
             drop == lowest - x.exp
         IN  IF drop <= 0 THEN x
             ELSE LET kept == SubSeq(x.man, drop + 1, Len(x.man))
                      half == drop <= Len(x.man) /\ x.man[drop] = 1
                      rest == \E j \in 1..(drop - 1) : j <= Len(x.man) /\ x.man[j] = 1
                      odd  == kept # <<>> /\ kept[1] = 1
                  IN  Float(x.neg,
                            IF half /\ (rest \/ odd) THEN BitsAdd(kept, <<1>>) ELSE kept,
                            lowest)

\* a + b, exactly.
ExactSum(a, b) ==
    LET e == IF a.exp < b.exp THEN a.exp ELSE b.exp
        x == Zeros(a.exp - e) \o a.man
        y == Zeros(b.exp - e) \o b.man
    IN  IF IsZero(a) /\ IsZero(b) THEN Float(a.neg /\ b.neg, <<>>, 0)
        ELSE IF IsZero(a) THEN b
        ELSE IF IsZero(b) THEN a
        ELSE IF a.neg = b.neg THEN Float(a.neg, BitsAdd(x, y), e)
        ELSE IF BitsLess(x, y) THEN Float(b.neg, BitsSub(y, x), e)
        ELSE IF BitsLess(y, x) THEN Float(a.neg, BitsSub(x, y), e)
        ELSE Float(FALSE, <<>>, 0)

\* a + b of two floats.  A term too small to reach the digit after the
\* other's last one leaves the other as it is.
FloatAdd(a, b) ==
    IF ~IsZero(a) /\ ~IsZero(b) /\ Top(a) - Top(b) > Precision + 2 THEN a
    ELSE IF ~IsZero(a) /\ ~IsZero(b) /\ Top(b) - Top(a) > Precision + 2 THEN b
    ELSE RoundToDouble(ExactSum(a, b))

\* a / 2 of a float.
FloatHalf(a) == IF IsZero(a) THEN a ELSE RoundToDouble([a EXCEPT !.exp = @ - 1])

\* -a
FloatNeg(a) == [a EXCEPT !.neg = ~@]

\* |a| < |b|
MagLess(a, b) ==
    IF IsZero(b) THEN FALSE
    ELSE IF IsZero(a) THEN TRUE
    ELSE IF Top(a) # Top(b) THEN Top(a) < Top(b)
    ELSE LET e == IF a.exp < b.exp THEN a.exp ELSE b.exp
         IN  BitsLess(Zeros(a.exp - e) \o a.man, Zeros(b.exp - e) \o b.man)

\* a < b
FloatLess(a, b) ==
    IF a.neg # b.neg THEN a.neg /\ ~(IsZero(a) /\ IsZero(b))
    ELSE IF a.neg THEN MagLess(b, a)
    ELSE MagLess(a, b)

\* The division behind FloatOf makes Chunk digits at a time, in Chunks steps.
Chunk == 15

Chunks == 8

\* The digits of floor(r * 2^(Chunk * k) / d), lowest first, and below
\* them a 1 when that division leaves a remainder, a 0 when it does not;
\* r < d.
RECURSIVE Fraction(_, _, _)
Fraction(r, d, k) ==
    IF k = 0 THEN <<IF r > 0 THEN 1 ELSE 0>>
    ELSE LET scaled == r * 2^Chunk
             digits == NatBits(scaled \div d)
         IN  Fraction(scaled % d, d, k - 1) \o digits \o Zeros(Chunk - Len(digits))

\* The float nearest to n / d: what Python reads a decimal literal as, and
\* what n / d of two integers gives (0 < d <= 2^16, n / d zero or of
\* magnitude 2^-60 and more).
FloatOf(n, d) ==
    LET m == IF n < 0 THEN -n ELSE n
    IN  RoundToDouble(Float(n < 0,
                            Fraction(m % d, d, Chunks) \o NatBits(m \div d),
                            -(Chunk * Chunks) - 1))

-----------------------------------------------------------------------------
(* The two analyzers are external libraries.  They are stood in for by     *)
(* fixed, deterministic word lists.                                        *)

\* w occurs in t.
Contains(t, w) == \E i \in 1..Len(t) : HasAt(t, i, w)

HateWord == Text(<<"h","a","t","e">>)

GoodWord == Text(<<"g","o","o","d">>)

FineWord == Text(<<"f","i","n","e">>)

HateScores ==
    [polarity |-> FloatOf(-8, 10), subjectivity |-> FloatOf(9, 10),
     compound |-> FloatOf(-55, 100)]

GoodScores ==
    [polarity |-> FloatOf(7, 10), subjectivity |-> FloatOf(6, 10),
     compound |-> FloatOf(45, 100)]

FineScores ==
    [polarity |-> FloatOf(15, 100), subjectivity |-> FloatOf(5, 10),
     compound |-> FloatOf(5, 100)]

NoScores ==
    [polarity |-> FloatOf(0, 1), subjectivity |-> FloatOf(0, 1),
     compound |-> FloatOf(0, 1)]

\* The scores the stand-ins give a cleaned text.
ScoresOf(cleaned_text) ==
    CASE Contains(cleaned_text, HateWord) -> HateScores
      [] Contains(cleaned_text, GoodWord) -> GoodScores
      [] Contains(cleaned_text, FineWord) -> FineScores
      [] OTHER -> NoScores

\* The sentiment tuple of TextBlob: the polarity and the subjectivity.
Sentiment(scores) == [polarity |-> scores.polarity, subjectivity |-> scores.subjectivity]

\* TextBlob(cleaned_text).sentiment
TextBlob(cleaned_text) == Sentiment(ScoresOf(cleaned_text))

\* vader_analyzer.polarity_scores(cleaned_text)
polarity_scores(cleaned_text) == [compound |-> ScoresOf(cleaned_text).compound]

\* The 0.1 of `combined_polarity > 0.1`; -0.1 is its negation.
Threshold == FloatOf(1, 10)

\* analyze_sentiment: combined_polarity and the label it gets.
SingleCombined(polarity, compound) == FloatHalf(FloatAdd(polarity, compound))

\* SingleSentiment with the thresholds included.
SingleSentimentInclusive(combined_polarity) ==
    IF ~FloatLess(combined_polarity, Threshold) THEN "positive"
    ELSE IF ~FloatLess(FloatNeg(Threshold), combined_polarity) THEN "negative"
    ELSE "neutral"

SingleSentiment(combined_polarity) ==
    IF FloatLess(Threshold, combined_polarity) THEN "positive"
    ELSE IF FloatLess(combined_polarity, FloatNeg(Threshold)) THEN "negative"
    ELSE "neutral"

\* analyze_sentiment_batch: the same two steps, written out again there.
BatchCombined(polarity, compound) == FloatHalf(FloatAdd(polarity, compound))

BatchSentiment(combined_polarity) ==
    IF FloatLess(Threshold, combined_polarity) THEN "positive"
    ELSE IF FloatLess(combined_polarity, FloatNeg(Threshold)) THEN "negative"
    ELSE "neutral"

-----------------------------------------------------------------------------
(* The handlers.  A handler's outcome is its response and the scorer       *)
(* invocations it made on the way.                                         *)

MaxTextLen == 1000

MaxBatch == 10

Error(status, message) == [status |-> status, body |-> [error |-> message]]

NoResponse == [status |-> 0, body |-> [none |-> TRUE]]

Outcome(response, calls) == [resp |-> response, calls |-> calls]

\* One invocation of the two analyzers: the raw value and the cleaned text.
Call(text, cleaned_text) == [raw |-> text, cleaned |-> cleaned_text]

\* The body of the 500 that `except Exception as e` answers with.
Unexpected(message) == Error(500, "An unexpected error occurred: " \o message)

\* type(v).__name__
TypeName(v) ==
    CASE v.type = "str"    -> "str"
      [] v.type = "int"    -> "int"
      [] v.type = "bool"   -> "bool"
      [] v.type = "null"   -> "NoneType"
      [] v.type = "list"   -> "list"
      [] v.type = "object" -> "dict"

\* The message of the AttributeError of text.strip() on a value that is no str.
StripError(text) == "'" \o TypeName(text) \o "' object has no attribute 'strip'"

TextKey == Text(<<"t","e","x","t">>)

TextsKey == Text(<<"t","e","x","t","s">>)

\* `key in data` where it is defined: on a dict, a list and a str.
IsIn(key, data) ==
    CASE data.type = "object" -> HasKey(data, key)
      [] data.type = "list"   -> \E k \in 1..Len(data.items) : data.items[k] = JStr(key)
      [] data.type = "str"    -> Contains(data.s, key)

\* `if not data or key not in data` and then `data[key]`: "missing" when
\* the condition holds, "found" when data[key] is there, and otherwise the
\* message of the TypeError that is raised.
Lookup(data, key) ==
    IF ~Truthy(data) THEN "missing"
    ELSE IF data.type \in {"int", "bool"} THEN
        "argument of type '" \o TypeName(data) \o "' is not iterable"
    ELSE IF ~IsIn(key, data) THEN "missing"
    ELSE IF data.type = "list" THEN "list indices must be integers or slices, not str"
    ELSE IF data.type = "str" THEN "string indices must be integers, not 'str'"
    ELSE "found"

\* analyze_sentiment, from `text = data['text']` on.
AnalyzeText(text) ==
    IF ~Truthy(text) THEN
        Outcome(Error(400, "Text cannot be empty."), <<>>)
    ELSE IF ~IsStr(text) THEN
        \* text.strip() raises AttributeError, caught by `except Exception`
        Outcome(Unexpected(StripError(text)), <<>>)
    ELSE IF Len(Strip(text.s)) = 0 THEN
        Outcome(Error(400, "Text cannot be empty."), <<>>)
    ELSE IF Len(text.s) > MaxTextLen THEN
        Outcome(Error(400, "Text is too long. Maximum length is 1000 characters."), <<>>)
    ELSE
        LET cleaned_text == clean_text(text.s) IN
        IF cleaned_text = <<>> THEN
            Outcome(Error(400, "Text is empty after cleaning."), <<>>)
        ELSE
            LET blob == TextBlob(cleaned_text)
                vader_scores == polarity_scores(cleaned_text)
                combined_polarity == SingleCombined(blob.polarity, vader_scores.compound)
            IN  Outcome([status |-> 200,
                         body |-> [original_text |-> text.s,
                                   cleaned_text |-> cleaned_text,
                                   sentiment |-> SingleSentiment(combined_polarity),
                                   textblob_polarity |-> blob.polarity,
                                   textblob_subjectivity |-> blob.subjectivity,
                                   vader_compound |-> vader_scores.compound,
                                   combined_polarity |-> combined_polarity]],
                        <<Call(text, cleaned_text)>>)

\* analyze_sentiment.  A request carries is_json and data, the JSON value
\* that request.get_json() returns.
analyze_sentiment(request) ==
    IF ~request.is_json THEN
        Outcome(Error(400, "Content-Type must be application/json"), <<>>)
    ELSE
        LET found == Lookup(request.data, TextKey) IN
        IF found = "missing" THEN
            Outcome(Error(400, "No text provided. Please include \"text\" in the request body."),
                    <<>>)
        ELSE IF found # "found" THEN Outcome(Unexpected(found), <<>>)
        ELSE AnalyzeText(Get(request.data, TextKey))

\* BatchEntry without the check of the cleaned text.
BatchEntryUnchecked(text) ==
    IF ~IsStr(text) THEN
        [entry |-> [text |-> PyStr(text), error |-> "Text must be a string"], calls |-> <<>>]
    ELSE IF ~Truthy(text) \/ Len(Strip(text.s)) = 0 THEN
        [entry |-> [text |-> text.s, error |-> "Text cannot be empty"], calls |-> <<>>]
    ELSE IF Len(text.s) > MaxTextLen THEN
        [entry |-> [text |-> text.s,
                    error |-> "Text is too long. Maximum length is 1000 characters."],
         calls |-> <<>>]
    ELSE
        LET cleaned_text == clean_text(text.s)
            blob == TextBlob(cleaned_text)
            vader_scores == polarity_scores(cleaned_text)
            combined_polarity == BatchCombined(blob.polarity, vader_scores.compound)
        IN  [entry |-> [original_text |-> text.s,
                        cleaned_text |-> cleaned_text,
                        sentiment |-> BatchSentiment(combined_polarity),
                        textblob_polarity |-> blob.polarity,
                        textblob_subjectivity |-> blob.subjectivity,
                        vader_compound |-> vader_scores.compound,
                        combined_polarity |-> combined_polarity],
             calls |-> <<Call(text, cleaned_text)>>]

\* BatchEntry with the length checked before the blank text.
BatchEntryLengthFirst(text) ==
    IF ~IsStr(text) THEN
        [entry |-> [text |-> PyStr(text), error |-> "Text must be a string"], calls |-> <<>>]
    ELSE IF Len(text.s) > MaxTextLen THEN
        [entry |-> [text |-> text.s,
                    error |-> "Text is too long. Maximum length is 1000 characters."],
         calls |-> <<>>]
    ELSE IF ~Truthy(text) \/ Len(Strip(text.s)) = 0 THEN
        [entry |-> [text |-> text.s, error |-> "Text cannot be empty"], calls |-> <<>>]
    ELSE
        LET cleaned_text == clean_text(text.s) IN
        IF cleaned_text = <<>> THEN
            [entry |-> [text |-> text.s, error |-> "Text is empty after cleaning"],
             calls |-> <<>>]
        ELSE
            LET blob == TextBlob(cleaned_text)
                vader_scores == polarity_scores(cleaned_text)
                combined_polarity == BatchCombined(blob.polarity, vader_scores.compound)
            IN  [entry |-> [original_text |-> text.s,
                            cleaned_text |-> cleaned_text,
                            sentiment |-> BatchSentiment(combined_polarity),
                            textblob_polarity |-> blob.polarity,
                            textblob_subjectivity |-> blob.subjectivity,
                            vader_compound |-> vader_scores.compound,
                            combined_polarity |-> combined_polarity],
                 calls |-> <<Call(text, cleaned_text)>>]

\* analyze_sentiment_batch: the body of `for text in texts`, for one text.
\* entry is what the pass appends to results.
BatchEntry(text) ==
    IF ~IsStr(text) THEN
        [entry |-> [text |-> PyStr(text), error |-> "Text must be a string"], calls |-> <<>>]
    ELSE IF ~Truthy(text) \/ Len(Strip(text.s)) = 0 THEN
        [entry |-> [text |-> text.s, error |-> "Text cannot be empty"], calls |-> <<>>]
    ELSE IF Len(text.s) > MaxTextLen THEN
        [entry |-> [text |-> text.s,
                    error |-> "Text is too long. Maximum length is 1000 characters."],
         calls |-> <<>>]
    ELSE
        LET cleaned_text == clean_text(text.s) IN
        IF cleaned_text = <<>> THEN
            [entry |-> [text |-> text.s, error |-> "Text is empty after cleaning"],
             calls |-> <<>>]
        ELSE
            LET blob == TextBlob(cleaned_text)
                vader_scores == polarity_scores(cleaned_text)
                combined_polarity == BatchCombined(blob.polarity, vader_scores.compound)
            IN  [entry |-> [original_text |-> text.s,
                            cleaned_text |-> cleaned_text,
                            sentiment |-> BatchSentiment(combined_polarity),
                            textblob_polarity |-> blob.polarity,
                            textblob_subjectivity |-> blob.subjectivity,
                            vader_compound |-> vader_scores.compound,
                            combined_polarity |-> combined_polarity],
                 calls |-> <<Call(text, cleaned_text)>>]

\* BatchShapeError without the limit on the batch size.
BatchShapeErrorAnySize(request) ==
    IF ~request.is_json THEN Error(400, "Content-Type must be application/json")
    ELSE
        LET found == Lookup(request.data, TextsKey) IN
        IF found = "missing" THEN
            Error(400, "No texts provided. Please include \"texts\" (list) in the request body.")
        ELSE IF found # "found" THEN Unexpected(found)
        ELSE IF ~IsList(Get(request.data, TextsKey)) THEN
            Error(400, "\"texts\" must be a list of strings.")
        ELSE NoResponse

\* analyze_sentiment_batch up to the loop: the error it answers with, or
\* NoResponse when it goes on to the loop.
BatchShapeError(request) ==
    IF ~request.is_json THEN Error(400, "Content-Type must be application/json")
    ELSE
        LET found == Lookup(request.data, TextsKey) IN
        IF found = "missing" THEN
            Error(400, "No texts provided. Please include \"texts\" (list) in the request body.")
        ELSE IF found # "found" THEN Unexpected(found)
        ELSE IF ~IsList(Get(request.data, TextsKey)) THEN
            Error(400, "\"texts\" must be a list of strings.")
        ELSE IF Len(Get(request.data, TextsKey).items) > MaxBatch THEN
            Error(400, "Too many texts. Maximum batch size is 10.")
        ELSE NoResponse

-----------------------------------------------------------------------------
(* The requests the clients send.                                          *)

\* c * n of a character c
Rep(c, n) == <<>> \o [i \in 1..n |-> c]

Hate == Text(<<"I"," ","h","a","t","e"," ","i","t","!">>)

Good == Text(<<"g","o","o","d">>)

Plain == Text(<<"a"," ","b">>)

Blank == Text(<<" "," ">>)

Junk == Text(<<"@","u"," ","#","h"," ","h","t","t","p",":","/","/","x"," ","!","!">>)

\* A form feed: whitespace to strip() and to \s.
FormFeed == Text(<<"\f">>)

\* 'cafe is fine', the e with an acute accent.
Cafe == Text(<<"c","a","f">>) \o EAcute \o Text(<<" ","i","s"," ","f","i","n","e">>)

\* "it's": repr() puts it in double quotes.
Its == Text(<<"i","t","'","s">>)

\* The value of 'text' in a request to /analyze-sentiment.
TextValues ==
    { JStr(Hate), JStr(Good), JStr(Plain), JStr(<<>>), JStr(Blank), JStr(Junk),
      JStr(FormFeed), JStr(Cafe),
      JStr(Rep(Ord("a"), MaxTextLen)), JStr(Rep(Ord("a"), MaxTextLen + 1)),
      JStr(Rep(Space, MaxTextLen + 1)),
      JInt(5), JInt(0), JNull, JBool(TRUE), JList(<<>>), JList(<<JInt(1)>>),
      JObject(<<Member(Text(<<"a">>), JInt(1))>>) }

Body(is_json, data) == [is_json |-> is_json, data |-> data]

SingleBodies ==
    { Body(FALSE, JNull),
      Body(TRUE, JObject(<<>>)),
      Body(TRUE, JObject(<<Member(TextsKey, JList(<<JStr(Good)>>))>>)),
      Body(TRUE, JList(<<JStr(TextKey)>>)),
      Body(TRUE, JInt(5)) }
    \cup { Body(TRUE, JObject(<<Member(TextKey, v)>>)) : v \in TextValues }

\* The items of the short lists sent to /analyze-sentiment-batch.
BatchItems == { JStr(Hate), JStr(Good), JStr(Junk), JStr(Blank), JInt(5) }

MaxItems == 2

RECURSIVE ListsOf(_)
ListsOf(n) ==
    IF n = 0 THEN {<<>>}
    ELSE LET shorter == ListsOf(n - 1)
         IN  shorter \cup {Append(l, v) : l \in shorter, v \in BatchItems}

Mixed(n) ==
    [i \in 1..n |-> CASE i % 3 = 1 -> JStr(Good)
                      [] i % 3 = 2 -> JInt(i)
                      [] OTHER     -> JStr(Hate)]

\* The value of 'texts' in a request to /analyze-sentiment-batch.
TextsValues ==
    { JStr(Good), JInt(5), JNull }
    \cup { JList(l) : l \in ListsOf(MaxItems) }
    \cup { JList(Mixed(MaxBatch)), JList(Mixed(MaxBatch + 1)),
           JList(<<JStr(Rep(Ord("a"), MaxTextLen + 1)), JStr(Good),
                   JStr(Rep(Space, MaxTextLen + 1)), JNull>>),
           JList(<<JStr(Rep(Ord("a"), MaxTextLen))>>),
           JList(<<JList(<<JInt(1), JStr(Good)>>), JBool(FALSE), JInt(-12)>>),
           JList(<<JStr(FormFeed), JStr(Cafe), JList(<<JStr(Its), JStr(FormFeed)>>),
                   JObject(<<Member(Text(<<"a">>), JStr(Good))>>), JStr(<<>>)>>) }

BatchBodies ==
    { Body(FALSE, JNull),
      Body(TRUE, JObject(<<>>)),
      Body(TRUE, JObject(<<Member(TextKey, JStr(Good))>>)),
      Body(TRUE, JStr(TextsKey)) }
    \cup { Body(TRUE, JObject(<<Member(TextsKey, v)>>)) : v \in TextsValues }

Clients == {"10.0.0.1"}

Endpoints == {"single", "batch"}

BodiesFor(endpoint) == IF endpoint = "single" THEN SingleBodies ELSE BatchBodies

-----------------------------------------------------------------------------
(* The rate limiter.  src/senti.py constructs flask_limiter's Limiter with  *)
(* key_func=get_remote_address and in-memory storage and puts a limit "per *)
(* minute" on each route.  The counting itself is the library's, which is  *)
(* not part of the repository: it is modelled as the library's default     *)
(* strategy, a fixed window: a counter per client address and route that   *)
(* begins with the first request counted, counts every request before the  *)
(* view function is called, whatever its outcome, and is dropped a minute  *)
(* after it began.  Time is taken to pass between requests, in ticks.      *)

\* @limiter.limit("10 per minute") on analyze_sentiment
SingleLimit == 10

\* @limiter.limit("5 per minute") on analyze_sentiment_batch
BatchLimit == 5

\* The route's own limit replaces default_limits.
LimitOf(endpoint) == IF endpoint = "single" THEN SingleLimit ELSE BatchLimit

\* Key with one counter per client for both routes.
KeyByClient(client, endpoint) == <<client, "single">>

\* key_func=get_remote_address, one counter per route.
Key(client, endpoint) == <<client, endpoint>>

\* How many refused requests per window the model follows.
MaxOver == 1

\* The ticks of the model's clock in a minute.
TicksPerMinute == 2

\* The answer to a request over the limit: the limiter raises
\* RateLimitExceeded, an HTTP 429, and the view function is not called.
\* src/senti.py registers no handler for it; the body Flask makes of the
\* exception is not modelled.
Refused == [status |-> 429, body |-> [exception |-> "RateLimitExceeded"]]

NoRequest ==
    [client |-> "none", endpoint |-> "none", is_json |-> FALSE, data |-> JNull]

ServiceInit ==
    /\ pc = "idle"
    /\ req = NoRequest
    /\ resp = NoResponse
    /\ texts = <<>>
    /\ results = <<>>
    /\ idx = 0
    /\ hits = [k \in {Key(c, e) : c \in Clients, e \in Endpoints} |-> 0]
    /\ clock = [k \in {Key(c, e) : c \in Clients, e \in Endpoints} |-> 0]
    /\ handled = [k \in Clients \X Endpoints |-> 0]
    /\ allFailed = [k \in Clients \X Endpoints |-> TRUE]
    /\ scored = <<>>

\* A request arrives; the limiter counts it.  The first request counted
\* begins the window of its counter, whose clock is 0 then.
Count(client, endpoint, body) ==
    /\ pc = "idle"
    /\ hits[Key(client, endpoint)] < LimitOf(endpoint) + MaxOver
    /\ hits' = [hits EXCEPT ![Key(client, endpoint)] = @ + 1]
    /\ req' = [client |-> client, endpoint |-> endpoint,
               is_json |-> body.is_json, data |-> body.data]
    /\ scored' = <<>>
    /\ UNCHANGED clock

\* The count is within the limit: the request goes to its handler.
Admit(client, endpoint, body) ==
    /\ Count(client, endpoint, body)
    /\ hits'[Key(client, endpoint)] <= LimitOf(endpoint)
    /\ pc' = endpoint
    /\ resp' = NoResponse
    /\ handled' = [handled EXCEPT ![<<client, endpoint>>] = @ + 1]
    /\ UNCHANGED <<texts, results, idx, allFailed, cleaner, classifier>>

\* The count is over the limit: 429, and the handler is not called.
Reject(client, endpoint, body) ==
    /\ Count(client, endpoint, body)
    /\ hits'[Key(client, endpoint)] > LimitOf(endpoint)
    /\ pc' = "done"
    /\ resp' = Refused
    /\ UNCHANGED <<texts, results, idx, handled, allFailed, cleaner, classifier>>

\* The window of the counter k ends with the coming tick.
Over(k) == hits[k] > 0 /\ clock[k] + 1 = TicksPerMinute

\* A tick of the clock: every counter that is running is a tick older.  A
\* counter whose minute is over is dropped; handled and allFailed, which
\* tell of the requests counted by that counter, begin anew with it.
Tick ==
    /\ pc = "idle"
    /\ \E k \in DOMAIN hits : hits[k] > 0
    /\ clock' = [k \in DOMAIN clock |->
                    IF hits[k] = 0 \/ Over(k) THEN 0 ELSE clock[k] + 1]
    /\ hits' = [k \in DOMAIN hits |-> IF Over(k) THEN 0 ELSE hits[k]]
    /\ handled' = [k \in DOMAIN handled |->
                      IF Over(Key(k[1], k[2])) THEN 0 ELSE handled[k]]
    /\ allFailed' = [k \in DOMAIN allFailed |->
                        Over(Key(k[1], k[2])) \/ allFailed[k]]
    /\ UNCHANGED <<pc, req, resp, texts, results, idx, scored, cleaner, classifier>>

\* The history of failures, once the request of req is answered with status.
Failed(status) ==
    [allFailed EXCEPT ![<<req.client, req.endpoint>>] = @ /\ status \in {400, 500}]

-----------------------------------------------------------------------------
(* The handlers at work.                                                   *)

Single ==
    /\ pc = "single"
    /\ LET out == analyze_sentiment(req) IN
        /\ resp' = out.resp
        /\ scored' = out.calls
    /\ pc' = "done"
    /\ UNCHANGED <<req, texts, results, idx, hits, clock, handled, allFailed, cleaner, classifier>>

\* analyze_sentiment_batch up to `results = []`.
BatchBegin ==
    /\ pc = "batch"
    /\ LET error == BatchShapeError(req) IN
        IF error # NoResponse
        THEN /\ resp' = error
             /\ pc' = "done"
             /\ UNCHANGED <<texts, results, idx>>
        ELSE /\ texts' = Get(req.data, TextsKey).items
             /\ results' = <<>>
             /\ idx' = 0
             /\ pc' = "loop"
             /\ UNCHANGED resp
    /\ UNCHANGED <<req, hits, clock, handled, allFailed, scored, cleaner, classifier>>

\* BatchItem putting the new entry in front of the others.
BatchItemPrepend ==
    /\ pc = "loop"
    /\ idx < Len(texts)
    /\ LET out == BatchEntry(texts[idx + 1]) IN
        /\ results' = <<out.entry>> \o results
        /\ scored' = scored \o out.calls
    /\ idx' = idx + 1
    /\ UNCHANGED <<pc, req, resp, texts, hits, clock, handled, allFailed, cleaner, classifier>>

\* BatchItem leaving the loop at the first item it reports (break for continue).
BatchItemAbort ==
    /\ pc = "loop"
    /\ idx < Len(texts)
    /\ LET out == BatchEntry(texts[idx + 1]) IN
        /\ results' = Append(results, out.entry)
        /\ scored' = scored \o out.calls
        /\ idx' = IF out.calls = <<>> THEN Len(texts) ELSE idx + 1
    /\ UNCHANGED <<pc, req, resp, texts, hits, clock, handled, allFailed, cleaner, classifier>>

\* One pass of `for text in texts`.
BatchItem ==
    /\ pc = "loop"
    /\ idx < Len(texts)
    /\ LET out == BatchEntry(texts[idx + 1]) IN
        /\ results' = Append(results, out.entry)
        /\ scored' = scored \o out.calls
    /\ idx' = idx + 1
    /\ UNCHANGED <<pc, req, resp, texts, hits, clock, handled, allFailed, cleaner, classifier>>

\* The loop is over: 200 with the results; the locals go with the call.
BatchReturn ==
    /\ pc = "loop"
    /\ idx = Len(texts)
    /\ resp' = [status |-> 200, body |-> [results |-> results]]
    /\ pc' = "done"
    /\ texts' = <<>>
    /\ results' = <<>>
    /\ idx' = 0
    /\ UNCHANGED <<req, hits, clock, handled, allFailed, scored, cleaner, classifier>>

\* The response goes out; nothing of the request stays behind.
Respond ==
    /\ pc = "done"
    /\ pc' = "idle"
    /\ req' = NoRequest
    /\ resp' = NoResponse
    /\ scored' = <<>>
    /\ allFailed' = Failed(resp.status)
    /\ UNCHANGED <<texts, results, idx, hits, clock, handled, cleaner, classifier>>

CleanIdle == cleaner = [stage |-> 0, text |-> <<>>, once |-> <<>>, twice |-> <<>>]

\* 0.0
Zero == Float(FALSE, <<>>, 0)

Unlabelled == [combined |-> Zero, sentiment |-> "none"]

ClassifyIdle ==
    classifier = [stage |-> 0, polarity |-> Zero, compound |-> Zero,
                  single |-> Unlabelled, batch |-> Unlabelled]

Init == ServiceInit /\ CleanIdle /\ ClassifyIdle

Next ==
    \/ \E c \in Clients, e \in Endpoints : \E b \in BodiesFor(e) : Admit(c, e, b)
    \/ \E c \in Clients, e \in Endpoints : \E b \in BodiesFor(e) : Reject(c, e, b)
    \/ Tick
    \/ Single
    \/ BatchBegin
    \/ BatchItem
    \/ BatchReturn
    \/ Respond

Spec == Init /\ [][Next]_vars

-----------------------------------------------------------------------------
(* clean_text alone.                                                       *)

InitClean == ServiceInit /\ CleanInit /\ ClassifyIdle

NextClean == CleanOnce \/ CleanTwice

SpecClean == InitClean /\ [][NextClean]_vars

-----------------------------------------------------------------------------
(* The classification rule alone, on the floats of every pair of scores a  *)
(* twentieth apart: -1.0, -0.95, ..., 0.95, 1.0.                           *)

Scores == {FloatOf(k, 20) : k \in -20..20}

ClassifyInit ==
    classifier \in [stage : {0}, polarity : Scores, compound : Scores,
                    single : {Unlabelled}, batch : {Unlabelled}]

\* Lines 89-95 of analyze_sentiment on the two scores.
ClassifySingle ==
    /\ classifier.stage = 0
    /\ LET combined_polarity == SingleCombined(classifier.polarity, classifier.compound)
       IN  classifier' =
             [classifier EXCEPT
                !.stage = 1,
                !.single = [combined |-> combined_polarity,
                            sentiment |-> SingleSentiment(combined_polarity)]]
    /\ UNCHANGED <<pc, req, resp, texts, results, idx, hits, clock, handled, allFailed,
                   scored, cleaner>>

\* Lines 206-212 of analyze_sentiment_batch on the two scores.
ClassifyBatch ==
    /\ classifier.stage = 1
    /\ LET combined_polarity == BatchCombined(classifier.polarity, classifier.compound)
       IN  classifier' =
             [classifier EXCEPT
                !.stage = 2,
                !.batch = [combined |-> combined_polarity,
                           sentiment |-> BatchSentiment(combined_polarity)]]
    /\ UNCHANGED <<pc, req, resp, texts, results, idx, hits, clock, handled, allFailed,
                   scored, cleaner>>

InitClassify == ServiceInit /\ CleanIdle /\ ClassifyInit

NextClassify == ClassifySingle \/ ClassifyBatch

SpecClassify == InitClassify /\ [][NextClassify]_vars

-----------------------------------------------------------------------------
(* Properties.                                                             *)

Answered == pc = "done"

\* The request of req went to its handler (the limiter did not refuse it).
Admitted == resp.status # 429

\* The request of req is a batch request whose 'texts' is there to look at.
BatchWithTexts ==
    /\ req.endpoint = "batch"
    /\ req.is_json
    /\ req.data.type = "object"
    /\ HasKey(req.data, TextsKey)

\* The value of 'texts' in the request of req.
ReqTexts == Get(req.data, TextsKey)

IsErrorRecord(entry) == DOMAIN entry = {"text", "error"}

IsSentimentResult(entry) ==
    DOMAIN entry = {"original_text", "cleaned_text", "sentiment", "textblob_polarity",
                    "textblob_subjectivity", "vader_compound", "combined_polarity"}

\* The item is one the batch reports inline instead of scoring.
Offending(item) ==
    \/ ~IsStr(item)
    \/ Len(Strip(item.s)) = 0
    \/ Len(item.s) > MaxTextLen
    \/ clean_text(item.s) = <<>>

\* C1: a batch request whose 'texts' is a list of 0 to 10 items is answered
\* 200 with one result per item, the i-th result being the record made for
\* the i-th item; while the loop runs, results holds the records of the
\* items consumed so far, in order.
BatchOrderPreserved ==
    /\ pc = "loop" =>
          /\ Len(results) = idx
          /\ \A i \in 1..Len(results) : results[i] = BatchEntry(texts[i]).entry
    /\ ( /\ Answered /\ Admitted /\ BatchWithTexts
         /\ IsList(ReqTexts)
         /\ Len(ReqTexts.items) <= MaxBatch )
       => /\ resp.status = 200
          /\ DOMAIN resp.body = {"results"}
          /\ Len(resp.body.results) = Len(ReqTexts.items)
          /\ \A i \in 1..Len(ReqTexts.items) :
                resp.body.results[i] = BatchEntry(ReqTexts.items[i]).entry

\* A full batch of ten, results and error records mixed, was answered 200.
BatchOrderWitness ==
    /\ Answered /\ BatchWithTexts
    /\ resp.status = 200
    /\ Len(resp.body.results) = MaxBatch
    /\ IsSentimentResult(resp.body.results[1])
    /\ IsErrorRecord(resp.body.results[2])
    /\ resp.body.results[3] # resp.body.results[1]

\* A batch answered 200 in which the items are the list of req.
BatchDone ==
    /\ Answered /\ Admitted /\ BatchWithTexts
    /\ IsList(ReqTexts)
    /\ Len(ReqTexts.items) <= MaxBatch

\* C2 as stated: an offending item yields an error record whose 'text' is
\* the offending value itself.
OffendingItemEchoed ==
    BatchDone =>
        /\ resp.status = 200
        /\ \A i \in 1..Len(ReqTexts.items) :
              Offending(ReqTexts.items[i]) =>
                  /\ IsErrorRecord(resp.body.results[i])
                  /\ JStr(resp.body.results[i].text) = ReqTexts.items[i]

\* C2, amended: an offending item yields an error record whose 'text' is the
\* item when the item is a string and str(item) when it is not; the batch is
\* still answered 200, and every other item gets the record it gets on its own.
OffendingItemReported ==
    BatchDone =>
        /\ resp.status = 200
        /\ Len(resp.body.results) = Len(ReqTexts.items)
        /\ \A i \in 1..Len(ReqTexts.items) :
              LET item == ReqTexts.items[i]
                  entry == resp.body.results[i]
              IN  IF Offending(item)
                  THEN /\ IsErrorRecord(entry)
                       /\ entry.text = IF IsStr(item) THEN item.s ELSE PyStr(item)
                  ELSE /\ IsSentimentResult(entry)
                       /\ entry = BatchEntry(item).entry

\* An item that is not a string was reported, and the item after it scored.
OffendingItemWitness ==
    /\ BatchDone
    /\ Len(ReqTexts.items) = 2
    /\ ~IsStr(ReqTexts.items[1])
    /\ IsErrorRecord(resp.body.results[1])
    /\ IsSentimentResult(resp.body.results[2])

\* The entries of a list that are SentimentResults.
Scored(entries) == {i \in 1..Len(entries) : IsSentimentResult(entries[i])}

\* C3: the analyzers are called only on a raw text that is a string of 1 to
\* 1000 characters, not blank, whose cleaned text is not empty; a text that
\* fails validation is answered without a call.
ScorersOnlyAfterValidation ==
    /\ \A k \in 1..Len(scored) :
          /\ IsStr(scored[k].raw)
          /\ Len(scored[k].raw.s) \in 1..MaxTextLen
          /\ Strip(scored[k].raw.s) # <<>>
          /\ scored[k].cleaned # <<>>
    /\ pc = "loop" => Len(scored) = Cardinality(Scored(results))
    /\ (Answered /\ req.endpoint = "single") =>
          Len(scored) = IF resp.status = 200 THEN 1 ELSE 0
    /\ (Answered /\ req.endpoint = "batch" /\ resp.status = 200) =>
          Len(scored) = Cardinality(Scored(resp.body.results))
    /\ (Answered /\ req.endpoint = "batch" /\ resp.status # 200) => scored = <<>>

\* A text of exactly 1000 characters was scored.
ScorersWitness ==
    /\ Len(scored) = 1
    /\ Len(scored[1].raw.s) = MaxTextLen
    /\ scored[1].cleaned # <<>>

\* |x| <= 2^e
WithinPower(x, e) == IsZero(x) \/ Top(x) <= e \/ (x.man = <<1>> /\ x.exp = e)

\* combined is what (polarity + compound) / 2 is in floats: a float, the
\* exact half of the exact sum when that is a float, and never further from
\* it than half a unit in the last place.
HalfOfSum(combined, polarity, compound) ==
    LET sum   == ExactSum(polarity, compound)
        twice == IF IsZero(combined) THEN combined ELSE [combined EXCEPT !.exp = @ + 1]
        error == ExactSum(sum, FloatNeg(twice))
    IN  /\ Len(combined.man) <= Precision
        /\ Len(sum.man) <= Precision => IsZero(error)
        /\ IsZero(sum) \/ WithinPower(error, Top(sum) - Precision - 1)

\* C4: combined is (polarity + compound) / 2, computed in floats; the label
\* is positive exactly when combined > 0.1, negative exactly when
\* combined < -0.1 and neutral otherwise, so one label for every pair of
\* scores, in both handlers; a combined of exactly 0.1 or -0.1 is neutral.
LabelOf(outcome) ==
    /\ HalfOfSum(outcome.combined, classifier.polarity, classifier.compound)
    /\ outcome.sentiment \in {"positive", "negative", "neutral"}
    /\ outcome.sentiment = "positive" <=> FloatLess(Threshold, outcome.combined)
    /\ outcome.sentiment = "negative" <=> FloatLess(outcome.combined, FloatNeg(Threshold))
    /\ outcome.sentiment = "neutral" <=>
          /\ ~FloatLess(Threshold, outcome.combined)
          /\ ~FloatLess(outcome.combined, FloatNeg(Threshold))
    /\ outcome.combined \in {Threshold, FloatNeg(Threshold)} => outcome.sentiment = "neutral"

StrictThresholds ==
    /\ classifier.stage >= 1 => LabelOf(classifier.single)
    /\ classifier.stage = 2 => LabelOf(classifier.batch)

\* Both handlers labelled a combined score of exactly 0.1 neutral.
StrictThresholdsWitness ==
    /\ classifier.stage = 2
    /\ classifier.polarity # classifier.compound
    /\ classifier.single.combined = Threshold
    /\ classifier.batch.combined = Threshold
    /\ classifier.single.sentiment = "neutral"
    /\ classifier.batch.sentiment = "neutral"

\* The URL pattern matches somewhere in t.
HasUrl(t) == \E i \in 1..Len(t) : UrlAt(t, i)

\* C5 as stated: clean_text(clean_text(x)) = clean_text(x) for every x.
CleanIdempotent ==
    cleaner.stage = 2 => cleaner.twice = cleaner.once

\* C5, amended: clean_text(clean_text(x)) = clean_text(x) for every x whose
\* cleaned text holds no URL-like substring; when it holds one (removing the
\* punctuation made it), the second cleaning removes it.
CleanIdempotentWithoutUrl ==
    cleaner.stage = 2 =>
        IF HasUrl(cleaner.once)
        THEN cleaner.twice # cleaner.once /\ Len(cleaner.twice) < Len(cleaner.once)
        ELSE cleaner.twice = cleaner.once

\* A text that cleaning changed, but not to nothing, was cleaned twice.
CleanIdempotentWitness ==
    /\ cleaner.stage = 2
    /\ cleaner.once # cleaner.text
    /\ Len(cleaner.once) >= 3
    /\ ~HasUrl(cleaner.once)
    /\ cleaner.twice = cleaner.once

\* t is words of word characters, one space between two of them.
WordsAndSingleSpaces(t) ==
    /\ \A j \in 1..Len(t) : IsWord(t[j]) \/ t[j] = Space
    /\ \A j \in 1..Len(t) : t[j] = Space => (j > 1 /\ j < Len(t) /\ t[j + 1] # Space)

\* t holds a punctuation or symbol character other than the two signs.
HasPunctuation(t) ==
    \E j \in 1..Len(t) : ~IsWord(t[j]) /\ ~IsSpace(t[j]) /\ t[j] \notin Signs

\* C6 as stated: the output of clean_text holds no URL-like substring, no
\* mention, no hashtag and no punctuation: only words, single spaces between.
CleanOutputNoUrl ==
    cleaner.stage >= 1 =>
        /\ WordsAndSingleSpaces(cleaner.once)
        /\ ~HasUrl(cleaner.once)

\* C6, amended: the output of clean_text is words of word characters (the
\* letters and digits of Unicode and the underscore) with single spaces
\* between them and no space at either end (so no mention, no
\* hashtag, no punctuation); it holds a URL-like substring only when the
\* input held punctuation whose removal joined the pieces of one.
CleanOutputWords ==
    cleaner.stage >= 1 =>
        /\ WordsAndSingleSpaces(cleaner.once)
        /\ HasUrl(cleaner.once) => HasPunctuation(cleaner.text)

\* A text with a full stop, a no-break space and an accented letter was
\* cleaned to words that a space separates, the accented letter among them.
CleanOutputWitness ==
    /\ cleaner.stage >= 1
    /\ \E j \in 1..Len(cleaner.text) : cleaner.text[j] = FullStop
    /\ \E j \in 1..Len(cleaner.text) : <<cleaner.text[j]>> = NoBreakSpace
    /\ \E j \in 1..Len(cleaner.once) : cleaner.once[j] = Space
    /\ \E j \in 1..Len(cleaner.once) : <<cleaner.once[j]>> = EAcute

\* C7: a batch request whose 'texts' is no list, or a list of more than 10
\* items, is answered 400 without results, and the loop over the items is
\* never entered for it: nothing is validated, cleaned or scored.
BadBatchRejectedWhole ==
    /\ pc = "loop" =>
          /\ BatchWithTexts
          /\ IsList(ReqTexts)
          /\ Len(ReqTexts.items) <= MaxBatch
    /\ ( /\ Answered /\ Admitted /\ BatchWithTexts
         /\ (~IsList(ReqTexts) \/ Len(ReqTexts.items) > MaxBatch) )
       => /\ resp.status = 400
          /\ DOMAIN resp.body = {"error"}
          /\ scored = <<>>
          /\ results = <<>> /\ idx = 0

\* A list of eleven items was answered 400.
BadBatchWitness ==
    /\ Answered /\ BatchWithTexts
    /\ IsList(ReqTexts)
    /\ Len(ReqTexts.items) = MaxBatch + 1
    /\ resp.status = 400

\* What a freshly started service answers to the request.
FreshResponse(request) ==
    IF request.endpoint = "single" THEN analyze_sentiment(request).resp
    ELSE IF BatchShapeError(request) # NoResponse THEN BatchShapeError(request)
    ELSE [status |-> 200,
          body |-> [results |-> [i \in 1..Len(Get(request.data, TextsKey).items) |->
                                    BatchEntry(Get(request.data, TextsKey).items[i]).entry]]]

\* C9 as stated: failed requests leave no trace, so a request that follows
\* only failed requests is answered as by a freshly started service.
FailuresLeaveNoTrace ==
    (Answered /\ allFailed[<<req.client, req.endpoint>>]) =>
        resp = FreshResponse(req)

\* C9, amended: a failed request affects a later one only by counting toward
\* the client's rate limit on that endpoint: a request is either answered as
\* by a freshly started service, or refused with 429 when the client's
\* requests to that same endpoint have used up the window's limit.
FailuresOnlyCount ==
    Answered =>
        IF resp.status = 429
        THEN handled[<<req.client, req.endpoint>>] =
                IF req.endpoint = "single" THEN SingleLimit ELSE BatchLimit
        ELSE resp = FreshResponse(req)

\* A request that followed only failed requests was answered 200.
FailuresOnlyCountWitness ==
    /\ Answered
    /\ resp.status = 200
    /\ allFailed[<<req.client, req.endpoint>>]
    /\ hits[Key(req.client, req.endpoint)] >= 3

\* The single endpoint's message for the condition a batch message names.
SingleMessage(batch_message) ==
    CASE batch_message = "Text cannot be empty" -> "Text cannot be empty."
      [] batch_message = "Text is too long. Maximum length is 1000 characters."
            -> "Text is too long. Maximum length is 1000 characters."
      [] batch_message = "Text is empty after cleaning" -> "Text is empty after cleaning."
      [] OTHER -> "none"

\* The batch entry and the single endpoint's response say the same of a text.
SameOutcome(entry, single) ==
    /\ IsSentimentResult(entry) <=> single.status = 200
    /\ IsSentimentResult(entry) => entry = single.body
    /\ IsErrorRecord(entry) =>
          /\ single.status = 400
          /\ single.body.error = SingleMessage(entry.error)

\* C10: for every string, the entry the batch makes for it is a
\* SentimentResult exactly when /analyze-sentiment answers 200 for it, with
\* the same fields; otherwise it is an error record for the validation
\* condition for which /analyze-sentiment answers 400.
SinglePipelineSameAsBatch ==
    pc = "loop" =>
        \A i \in 1..Len(results) :
            IsStr(texts[i]) =>
                SameOutcome(results[i],
                            analyze_sentiment(Body(TRUE, JObject(<<Member(TextKey, texts[i])>>))).resp)

\* The batch has made a result, and error records for a blank text and for
\* a text over the length limit.
SinglePipelineWitness ==
    /\ pc = "loop"
    /\ Len(results) >= 3
    /\ IsErrorRecord(results[1])
    /\ results[1].error = "Text is too long. Maximum length is 1000 characters."
    /\ IsSentimentResult(results[2])
    /\ IsErrorRecord(results[3])
    /\ results[3].error = "Text cannot be empty"
    /\ Len(texts[3].s) > MaxTextLen

====
